---- MODULE Spec2Model ----
(***************************************************************************)
(* Structured query planning, validation and deterministic SQL generation  *)
(* of DataChat (NL -> SQL), together with its semantic result cache.       *)
(*                                                                         *)
(* Plans are records.  A field of a plan that is not an array in the       *)
(* JavaScript object (undefined / null) is listed in plan.missing and      *)
(* holds <<>> in the record.  Strings the code searches by substring are   *)
(* given character by character through Chars.                             *)
(***************************************************************************)
EXTENDS Integers, Sequences, FiniteSets, TLC

VARIABLES
  registry,   \* logicalSchemaRegistry: Map<logicalName, LogicalTableEntry>
  plan,       \* the StructuredPlan object the stages pass along
  prev,       \* the plan object as it was before the last call
  question,   \* the question text given to extractMetrics ("" before)
  hist,       \* the calls made on the plan so far, in order
  err,        \* the Error thrown by the last call (<<>> when it returned)
  sql,        \* the pieces of the SQL text buildSQL returned (<<>> before)
  override,   \* the explicitTableName option buildSQL was given ("" when none)
  cache,      \* the rows of conversation_query_cache, in insertion order
  env,        \* process.env: Supabase configured or not, EMBEDDING_DIM
  lookup,     \* the last call on the cache: its arguments and its outcome
  reqs,       \* the chat requests of the server process
  tables,     \* the session_% tables of the database: present or dropped, and
              \* how many times upload-csv has dropped and re-created each
  setup,      \* ragSetupPromise of setup.ts, the progress of the setup body,
              \* and the callers of ensureRagSetup
  retry,      \* the withRetry call in progress
  heal        \* the last call of repairPlan: the error, its category, the
              \* context, the plan object afterwards and what was returned

vars == <<registry, plan, prev, question, hist, err, sql, override, cache, env,
          lookup, reqs, tables, setup, retry, heal>>

(***************************************************************************)
(* Bounds of the model                                                     *)
(***************************************************************************)
\* how many fields of an incoming plan differ from the empty plan on "orders"
MaxFields == 2

\* how many rows the query cache holds
MaxRows == 2

\* how many times upload-csv re-creates one table
MaxUploads == 1

\* how many calls of ensureRagSetup the server process gets
MaxCallers == 3

\* how many values, and how many errors, an invocation of fn can give
MaxOutcome == 2

\* how many chat requests the server process serves
MaxRequests == 2

(***************************************************************************)
(* Generic helpers (JavaScript array semantics)                            *)
(***************************************************************************)
Range(s) == {s[i] : i \in 1..Len(s)}

\* the one element of a set {e}: e is computed once and then used as a value,
\* as a statement `const v = e` does
Value(s) == CHOOSE v \in s : TRUE

Includes(s, x) == \E i \in 1..Len(s) : s[i] = x

\* index of the first element of s that is in the set bad, 0 when none
FirstIn(s, bad) ==
  IF \E i \in 1..Len(s) : s[i] \in bad
  THEN CHOOSE i \in 1..Len(s) : s[i] \in bad /\ \A j \in 1..(i - 1) : s[j] \notin bad
  ELSE 0

\* Array.from(new Set(s)): first occurrences, in order
RECURSIVE Dedupe(_)
Dedupe(s) ==
  IF Len(s) = 0 THEN <<>>
  ELSE LET front == Dedupe(SubSeq(s, 1, Len(s) - 1))
           x == s[Len(s)]
       IN IF Includes(front, x) THEN front ELSE Append(front, x)

NoError == <<>>

(***************************************************************************)
(* Logical schema registry                                                 *)
(***************************************************************************)
TableNames == {"orders", "ghost"}

NoEntry == [present |-> FALSE, physicalName |-> "", columns |-> {}]

\* registry.get(name) is undefined
Unregistered(reg, name) == name \notin DOMAIN reg \/ ~reg[name].present

RegisterLogicalTableFn(reg, logicalName, physicalName, columns) ==
  [reg EXCEPT ![logicalName] =
     [present |-> TRUE, physicalName |-> physicalName, columns |-> columns]]

\* the object getLogicalTable returns for a registered name
GetLogicalTable(reg, logicalName) ==
  [logicalName |-> logicalName,
   physicalName |-> reg[logicalName].physicalName,
   columns |-> reg[logicalName].columns]

UnknownLogicalTable(name) == <<"Unknown logical table: ", name>>

(***************************************************************************)
(* Semantic column resolver                                                *)
(***************************************************************************)
NoColumn == ""

Threshold == 65

\* cosine similarity in hundredths, of two embeddings given as directions
CosineSimilarity(a, b) == IF a = b THEN 100 ELSE 0

ResolveColumnSemantically_Guess(intent, logicalTableName, reg) ==
  IF reg[logicalTableName].columns = {} THEN NoColumn
  ELSE CHOOSE c \in reg[logicalTableName].columns : TRUE

ResolveColumnSemantically(intent, logicalTableName, reg) ==
  LET table == GetLogicalTable(reg, logicalTableName) IN
  IF "columnEmbeddings" \notin DOMAIN table THEN NoColumn
  ELSE LET emb == table.columnEmbeddings
           intentEmb == IF "intentEmbedding" \in DOMAIN table
                        THEN table.intentEmbedding ELSE 0
           score(c) == CosineSimilarity(intentEmb, emb[c])
           good == {c \in DOMAIN emb : score(c) >= Threshold}
       IN IF good = {} THEN NoColumn
          ELSE CHOOSE c \in good : \A d \in good : score(d) <= score(c)

(***************************************************************************)
(* Plan Normalizer                                                         *)
(***************************************************************************)
IsArray(p, f) == f \notin p.missing

Returned(p) == [plan |-> p, err |-> NoError]
Thrown(p, e) == [plan |-> p, err |-> e]

NormalizePlan(p, reg) ==
  IF ~IsArray(p, "tables") \/ Len(p.tables) = 0 THEN Returned(p)
  ELSE
  LET logicalTable == p.tables[1] IN
  IF Unregistered(reg, logicalTable)
  THEN Thrown(p, UnknownLogicalTable(logicalTable))
  ELSE
  LET validColumns == GetLogicalTable(reg, logicalTable).columns
      resolvedColumn == ResolveColumnSemantically(p.intent, logicalTable, reg)
      p1 == IF /\ IsArray(p, "columns") /\ Len(p.columns) = 0
               /\ IsArray(p, "metrics") /\ Len(p.metrics) = 0
               /\ resolvedColumn # NoColumn
               /\ resolvedColumn \in validColumns
            THEN [p EXCEPT !.columns = <<resolvedColumn>>,
                           !.group_by = <<resolvedColumn>>,
                           !.missing = @ \ {"columns", "group_by"}]
            ELSE p
      cols0 == IF IsArray(p1, "columns") THEN p1.columns ELSE <<>>
      cols1 == IF Includes(cols0, "*") THEN <<>> ELSE cols0
      columns == IF \E i \in 1..Len(cols1) : cols1[i] \notin validColumns
                 THEN <<>> ELSE cols1
      filters == IF IsArray(p1, "filters")
                 THEN SelectSeq(p1.filters, LAMBDA f : f.column \in validColumns)
                 ELSE <<>>
      metrics == IF IsArray(p1, "metrics")
                 THEN SelectSeq(p1.metrics, LAMBDA m : m.column \in validColumns)
                 ELSE <<>>
      groupBy == IF IsArray(p1, "group_by")
                 THEN SelectSeq(p1.group_by, LAMBDA c : c \in validColumns)
                 ELSE <<>>
      orderBy == IF IsArray(p1, "order_by")
                 THEN SelectSeq(p1.order_by, LAMBDA c : c \in validColumns)
                 ELSE <<>>
  IN Returned([p1 EXCEPT !.columns = columns,
                         !.filters = filters,
                         !.metrics = metrics,
                         !.group_by = groupBy,
                         !.order_by = orderBy,
                         !.missing = @ \ {"columns", "filters", "metrics",
                                          "group_by", "order_by"}])

(***************************************************************************)
(* Plan Validator                                                          *)
(***************************************************************************)
\* the error of the filter loop, NoError when every filter passes
FilterError(filters, validColumns) ==
  LET bad == {i \in 1..Len(filters) :
                \/ filters[i].column = "" \/ filters[i].operator = ""
                \/ filters[i].column \notin validColumns}
  IN IF bad = {} THEN NoError
     ELSE LET i == CHOOSE k \in bad : \A j \in bad : k <= j
          IN IF filters[i].column = "" \/ filters[i].operator = ""
             THEN <<"Invalid filter structure">>
             ELSE <<"Invalid filter column: ", filters[i].column>>

\* the metric loop with "*" taken for every aggregation
MetricPasses_StarForAll(m, validColumns) ==
  /\ m.aggregation # ""
  /\ \/ m.column = "*" \/ (m.aggregation = "COUNT" /\ m.column = "")
     \/ m.column # "" /\ m.column \in validColumns

\* a metric the metric loop accepts
MetricPasses(m, validColumns) ==
  /\ m.aggregation # ""
  /\ \/ m.aggregation = "COUNT" /\ (m.column = "*" \/ m.column = "")
     \/ m.column # "" /\ m.column \in validColumns

MetricError(metrics, validColumns) ==
  LET bad == {i \in 1..Len(metrics) : ~MetricPasses(metrics[i], validColumns)}
  IN IF bad = {} THEN NoError
     ELSE LET m == metrics[CHOOSE k \in bad : \A j \in bad : k <= j]
          IN IF m.aggregation = "" THEN <<"Invalid metric structure">>
             ELSE IF m.column = ""
             THEN <<"Aggregation ", m.aggregation, " requires a column">>
             ELSE <<"Invalid metric column: ", m.column>>

\* an order_by entry the ORDER BY loop accepts
IsGroupedOrAggregated(p, col) ==
  \/ Includes(p.group_by, col)
  \/ \E i \in 1..Len(p.metrics) : p.metrics[i].column = col

\* the rule with one column let through
GroupByRequired_ManyColumns(p) ==
  Len(p.metrics) > 0 /\ Len(p.columns) > 1 /\ Len(p.group_by) = 0

\* metrics are mixed with columns and nothing is grouped
GroupByRequired(p) ==
  Len(p.metrics) > 0 /\ Len(p.columns) > 0 /\ Len(p.group_by) = 0

ValidatePlan(p, reg) ==
  IF ~IsArray(p, "tables") \/ Len(p.tables) = 0
  THEN Thrown(p, <<"No table specified in plan">>)
  ELSE
  LET p1 == [p EXCEPT !.tables = Dedupe(p.tables)] IN
  IF Len(p1.tables) > 1
  THEN Thrown(p1, <<"Multiple tables not supported yet">>)
  ELSE
  LET logicalTable == p1.tables[1] IN
  IF Unregistered(reg, logicalTable)
  THEN Thrown(p1, UnknownLogicalTable(logicalTable))
  ELSE
  LET validColumns == GetLogicalTable(reg, logicalTable).columns IN
  IF validColumns = {}
  THEN Thrown(p1, <<"No columns registered for table: ", logicalTable>>)
  ELSE
  LET p2 == [p1 EXCEPT !.missing = {}]
      badCol == FirstIn(p2.columns, {c \in Range(p2.columns) : c \notin validColumns})
      badGroup == FirstIn(p2.group_by, {c \in Range(p2.group_by) : c \notin validColumns})
      badOrder == FirstIn(p2.order_by,
                          {c \in Range(p2.order_by) : ~IsGroupedOrAggregated(p2, c)})
  IN
  IF Includes(p2.columns, "*")
  THEN Thrown(p2, <<"Invalid column \"*\". Use empty columns array to mean SELECT *">>)
  ELSE IF badCol # 0
  THEN Thrown(p2, <<"Invalid column: ", p2.columns[badCol]>>)
  ELSE IF FilterError(p2.filters, validColumns) # NoError
  THEN Thrown(p2, FilterError(p2.filters, validColumns))
  ELSE IF MetricError(p2.metrics, validColumns) # NoError
  THEN Thrown(p2, MetricError(p2.metrics, validColumns))
  ELSE IF GroupByRequired(p2)
  THEN Thrown(p2, <<"GROUP BY required when using metrics with columns">>)
  ELSE IF badGroup # 0
  THEN Thrown(p2, <<"Invalid group_by column: ", p2.group_by[badGroup]>>)
  ELSE IF badOrder # 0
  THEN Thrown(p2, <<"ORDER BY column \"", p2.order_by[badOrder],
                    "\" must be grouped or aggregated">>)
  ELSE Returned(p2)

(***************************************************************************)
(* Strings as characters (String.prototype.includes, toLowerCase, replace) *)
(***************************************************************************)
\* the characters of the strings the model uses
Chars(s) ==
  IF s = "How many orders are there" THEN <<"H", "o", "w", " ", "m", "a", "n", "y", " ", "o", "r", "d", "e", "r", "s", " ", "a", "r", "e", " ", "t", "h", "e", "r", "e">> ELSE
  IF s = "What is the average amount" THEN <<"W", "h", "a", "t", " ", "i", "s", " ", "t", "h", "e", " ", "a", "v", "e", "r", "a", "g", "e", " ", "a", "m", "o", "u", "n", "t">> ELSE
  IF s = "show all orders" THEN <<"s", "h", "o", "w", " ", "a", "l", "l", " ", "o", "r", "d", "e", "r", "s">> ELSE
  IF s = "Total discount" THEN <<"T", "o", "t", "a", "l", " ", "d", "i", "s", "c", "o", "u", "n", "t">> ELSE
  IF s = "Sum of the minimum" THEN <<"S", "u", "m", " ", "o", "f", " ", "t", "h", "e", " ", "m", "i", "n", "i", "m", "u", "m">> ELSE
  IF s = "Lowest max price" THEN <<"L", "o", "w", "e", "s", "t", " ", "m", "a", "x", " ", "p", "r", "i", "c", "e">> ELSE
  IF s = "how many" THEN <<"h", "o", "w", " ", "m", "a", "n", "y">> ELSE
  IF s = "count" THEN <<"c", "o", "u", "n", "t">> ELSE
  IF s = "number of" THEN <<"n", "u", "m", "b", "e", "r", " ", "o", "f">> ELSE
  IF s = "average" THEN <<"a", "v", "e", "r", "a", "g", "e">> ELSE
  IF s = "mean" THEN <<"m", "e", "a", "n">> ELSE
  IF s = "avg" THEN <<"a", "v", "g">> ELSE
  IF s = "total" THEN <<"t", "o", "t", "a", "l">> ELSE
  IF s = "sum" THEN <<"s", "u", "m">> ELSE
  IF s = "maximum" THEN <<"m", "a", "x", "i", "m", "u", "m">> ELSE
  IF s = "highest" THEN <<"h", "i", "g", "h", "e", "s", "t">> ELSE
  IF s = "max" THEN <<"m", "a", "x">> ELSE
  IF s = "minimum" THEN <<"m", "i", "n", "i", "m", "u", "m">> ELSE
  IF s = "lowest" THEN <<"l", "o", "w", "e", "s", "t">> ELSE
  IF s = "min" THEN <<"m", "i", "n">> ELSE
  IF s = "balance" THEN <<"b", "a", "l", "a", "n", "c", "e">> ELSE
  IF s = "amount" THEN <<"a", "m", "o", "u", "n", "t">> ELSE
  IF s = "price" THEN <<"p", "r", "i", "c", "e">> ELSE
  IF s = "salary" THEN <<"s", "a", "l", "a", "r", "y">> ELSE
  IF s = "income" THEN <<"i", "n", "c", "o", "m", "e">> ELSE
  IF s = "age" THEN <<"a", "g", "e">> ELSE
  IF s = "score" THEN <<"s", "c", "o", "r", "e">> ELSE
  IF s = "duration" THEN <<"d", "u", "r", "a", "t", "i", "o", "n">> ELSE
  IF s = "years" THEN <<"y", "e", "a", "r", "s">> ELSE
  IF s = "id" THEN <<"i", "d">> ELSE
  IF s = "status" THEN <<"s", "t", "a", "t", "u", "s">> ELSE
  IF s = "bogus" THEN <<"b", "o", "g", "u", "s">> ELSE
  IF s = "*" THEN <<"*">> ELSE
  IF s = "" THEN <<>> ELSE
  IF s = "open" THEN <<"o", "p", "e", "n">> ELSE
  IF s = "Open" THEN <<"O", "p", "e", "n">> ELSE
  IF s = "o'k" THEN <<"o", "'", "k">> ELSE
  IF s = "orders" THEN <<"o", "r", "d", "e", "r", "s">> ELSE
  IF s = "ghost" THEN <<"g", "h", "o", "s", "t">> ELSE
  IF s = "select" THEN <<"s", "e", "l", "e", "c", "t">> ELSE
  IF s = "aggregation" THEN <<"a", "g", "g", "r", "e", "g", "a", "t", "i", "o", "n">> ELSE
  IF s = "comparison" THEN <<"c", "o", "m", "p", "a", "r", "i", "s", "o", "n">> ELSE
  IF s = "COUNT" THEN <<"C", "O", "U", "N", "T">> ELSE
  IF s = "SUM" THEN <<"S", "U", "M">> ELSE
  IF s = "AVG" THEN <<"A", "V", "G">> ELSE
  IF s = "MIN" THEN <<"M", "I", "N">> ELSE
  IF s = "MAX" THEN <<"M", "A", "X">> ELSE
  IF s = "MEDIAN" THEN <<"M", "E", "D", "I", "A", "N">> ELSE
  IF s = "=" THEN <<"=">> ELSE
  IF s = ">" THEN <<">">> ELSE
  IF s = "<" THEN <<"<">> ELSE
  IF s = ">=" THEN <<">", "=">> ELSE
  IF s = "<=" THEN <<"<", "=">> ELSE
  IF s = "LIKE" THEN <<"L", "I", "K", "E">> ELSE
  IF s = "!=" THEN <<"!", "=">> ELSE
  IF s = "a1" THEN <<"a", "1">> ELSE
  IF s = "b2" THEN <<"b", "2">> ELSE
  IF s = "a1' OR '1'='1" THEN <<"a", "1", "'", " ", "O", "R", " ", "'", "1", "'", "=", "'", "1">> ELSE
  IF s = "session_a1_orders" THEN <<"s", "e", "s", "s", "i", "o", "n", "_", "a", "1", "_", "o", "r", "d", "e", "r", "s">> ELSE
  IF s = "session_b2_orders" THEN <<"s", "e", "s", "s", "i", "o", "n", "_", "b", "2", "_", "o", "r", "d", "e", "r", "s">> ELSE
  IF s = "pg_shadow" THEN <<"p", "g", "_", "s", "h", "a", "d", "o", "w">> ELSE
  IF s = "SELECT * FROM \"session_a1_orders\"" THEN <<"S", "E", "L", "E", "C", "T", " ", "*", " ", "F", "R", "O", "M", " ", "\"", "s", "e", "s", "s", "i", "o", "n", "_", "a", "1", "_", "o", "r", "d", "e", "r", "s", "\"">> ELSE
  IF s = " SELECT  *  FROM \"session_b2_orders\" ; " THEN <<" ", "S", "E", "L", "E", "C", "T", " ", " ", "*", " ", " ", "F", "R", "O", "M", " ", "\"", "s", "e", "s", "s", "i", "o", "n", "_", "b", "2", "_", "o", "r", "d", "e", "r", "s", "\"", " ", ";", " ">> ELSE
  IF s = "column" THEN <<"c", "o", "l", "u", "m", "n">> ELSE
  IF s = "operator" THEN <<"o", "p", "e", "r", "a", "t", "o", "r">> ELSE
  IF s = "value" THEN <<"v", "a", "l", "u", "e">> ELSE
  IF s = "table" THEN <<"t", "a", "b", "l", "e">> ELSE
  IF s = "intent" THEN <<"i", "n", "t", "e", "n", "t">> ELSE
  IF s = "columns" THEN <<"c", "o", "l", "u", "m", "n", "s">> ELSE
  IF s = "metrics" THEN <<"m", "e", "t", "r", "i", "c", "s">> ELSE
  IF s = "filters" THEN <<"f", "i", "l", "t", "e", "r", "s">> ELSE
  IF s = "group_by" THEN <<"g", "r", "o", "u", "p", "_", "b", "y">> ELSE
  IF s = "session_" THEN <<"s", "e", "s", "s", "i", "o", "n", "_">> ELSE
  IF s = "SELECT " THEN <<"S", "E", "L", "E", "C", "T", " ">> ELSE
  IF s = ", " THEN <<",", " ">> ELSE
  IF s = " FROM " THEN <<" ", "F", "R", "O", "M", " ">> ELSE
  IF s = " WHERE " THEN <<" ", "W", "H", "E", "R", "E", " ">> ELSE
  IF s = " AND " THEN <<" ", "A", "N", "D", " ">> ELSE
  IF s = " GROUP BY " THEN <<" ", "G", "R", "O", "U", "P", " ", "B", "Y", " ">> ELSE
  IF s = " ORDER BY " THEN <<" ", "O", "R", "D", "E", "R", " ", "B", "Y", " ">> ELSE
  IF s = " LIMIT " THEN <<" ", "L", "I", "M", "I", "T", " ">> ELSE
  IF s = "COUNT(*)" THEN <<"C", "O", "U", "N", "T", "(", "*", ")">> ELSE
  IF s = "(" THEN <<"(">> ELSE
  IF s = ")" THEN <<")">> ELSE
  IF s = "\"" THEN <<"\"">> ELSE
  IF s = " " THEN <<" ">> ELSE
  IF s = "0" THEN <<"0">> ELSE
  IF s = "1" THEN <<"1">> ELSE
  IF s = "2" THEN <<"2">> ELSE
  IF s = "3" THEN <<"3">> ELSE
  IF s = "4" THEN <<"4">> ELSE
  IF s = "5" THEN <<"5">> ELSE
  IF s = "6" THEN <<"6">> ELSE
  IF s = "7" THEN <<"7">> ELSE
  IF s = "8" THEN <<"8">> ELSE
  IF s = "9" THEN <<"9">> ELSE
  IF s = "10" THEN <<"1", "0">> ELSE
  IF s = "does not exist" THEN <<"d", "o", "e", "s", " ", "n", "o", "t", " ", "e", "x", "i", "s", "t">> ELSE
  IF s = "session" THEN <<"s", "e", "s", "s", "i", "o", "n">> ELSE
  IF s = "syntax" THEN <<"s", "y", "n", "t", "a", "x">> ELSE
  IF s = "discount" THEN <<"d", "i", "s", "c", "o", "u", "n", "t">> ELSE
  IF s = "column \"discount\" does not exist" THEN <<"c", "o", "l", "u", "m", "n", " ", "\"", "d", "i", "s", "c", "o", "u", "n", "t", "\"", " ", "d", "o", "e", "s", " ", "n", "o", "t", " ", "e", "x", "i", "s", "t">> ELSE
  IF s = "Session not found" THEN <<"S", "e", "s", "s", "i", "o", "n", " ", "n", "o", "t", " ", "f", "o", "u", "n", "d">> ELSE
  IF s = "syntax error at or near \"FROM\"" THEN <<"s", "y", "n", "t", "a", "x", " ", "e", "r", "r", "o", "r", " ", "a", "t", " ", "o", "r", " ", "n", "e", "a", "r", " ", "\"", "F", "R", "O", "M", "\"">> ELSE
  IF s = "permission denied" THEN <<"p", "e", "r", "m", "i", "s", "s", "i", "o", "n", " ", "d", "e", "n", "i", "e", "d">> ELSE
  IF s = "relation \"session_a1_orders\" does not exist" THEN <<"r", "e", "l", "a", "t", "i", "o", "n", " ", "\"", "s", "e", "s", "s", "i", "o", "n", "_", "a", "1", "_", "o", "r", "d", "e", "r", "s", "\"", " ", "d", "o", "e", "s", " ", "n", "o", "t", " ", "e", "x", "i", "s", "t">> ELSE
  <<s>>

UpperChars == <<"A", "B", "C", "D", "E", "F", "G", "H", "I", "J", "K", "L", "M",
                "N", "O", "P", "Q", "R", "S", "T", "U", "V", "W", "X", "Y", "Z">>

LowerChars == <<"a", "b", "c", "d", "e", "f", "g", "h", "i", "j", "k", "l", "m",
                "n", "o", "p", "q", "r", "s", "t", "u", "v", "w", "x", "y", "z">>

LowerOf ==
  [c \in Range(UpperChars) |-> LowerChars[CHOOSE k \in 1..Len(UpperChars) : UpperChars[k] = c]]

ToLowerCase(cs) ==
  [i \in 1..Len(cs) |-> IF cs[i] \in DOMAIN LowerOf THEN LowerOf[cs[i]] ELSE cs[i]]

\* hay.includes(needle)
StrIncludes(hay, needle) ==
  \E h \in {hay}, n \in {needle} :
     \E i \in 1..(Len(h) - Len(n) + 1) : SubSeq(h, i, i + Len(n) - 1) = n

\* the string made of the characters cs
RECURSIVE Concat(_)
Concat(cs) == IF Len(cs) = 0 THEN "" ELSE cs[1] \o Concat(Tail(cs))

(***************************************************************************)
(* Metric Extractor                                                        *)
(***************************************************************************)
\* the rules with MIN's before MAX's
METRIC_KEYWORDS_MinFirst ==
  << [words |-> <<"how many", "count", "number of">>, agg |-> "COUNT"],
     [words |-> <<"average", "mean", "avg">>, agg |-> "AVG"],
     [words |-> <<"total", "sum">>, agg |-> "SUM"],
     [words |-> <<"minimum", "lowest", "min">>, agg |-> "MIN"],
     [words |-> <<"maximum", "highest", "max">>, agg |-> "MAX"] >>

METRIC_KEYWORDS ==
  << [words |-> <<"how many", "count", "number of">>, agg |-> "COUNT"],
     [words |-> <<"average", "mean", "avg">>, agg |-> "AVG"],
     [words |-> <<"total", "sum">>, agg |-> "SUM"],
     [words |-> <<"maximum", "highest", "max">>, agg |-> "MAX"],
     [words |-> <<"minimum", "lowest", "min">>, agg |-> "MIN"] >>

NUMERIC_HINTS == <<"balance", "amount", "price", "salary", "income", "age",
                   "score", "count", "total", "duration", "years">>

NullLimit == [isNumber |-> FALSE, n |-> 0]

HasNumericHint(col) ==
  \E h \in 1..Len(NUMERIC_HINTS) :
     StrIncludes(ToLowerCase(Chars(col)), Chars(NUMERIC_HINTS[h]))

\* [column, err]: the column inferMetricColumn returns, or the error it throws
InferMetricColumn(agg, p) ==
  IF agg = "COUNT" THEN [column |-> "*", err |-> NoError]
  ELSE IF ~IsArray(p, "columns")
  THEN [column |-> "", err |-> <<"TypeError: Cannot read properties of undefined (reading 'length')">>]
  ELSE IF Len(p.columns) = 1 THEN [column |-> p.columns[1], err |-> NoError]
  ELSE LET hinted == {i \in 1..Len(p.columns) : HasNumericHint(p.columns[i])} IN
       IF hinted # {}
       THEN [column |-> p.columns[CHOOSE i \in hinted : \A j \in hinted : i <= j],
             err |-> NoError]
       ELSE [column |-> "",
             err |-> <<"Cannot infer numeric column for ", agg,
                       ". Ask user to specify a column.">>]

\* if (plan.metrics.length > 0): columns, order_by and limit are reset
ForceAggregationMode_KeepsLimit(p) ==
  [p EXCEPT !.columns = <<>>, !.order_by = <<>>, !.missing = @ \ {"columns", "order_by"}]

ForceAggregationMode(p) ==
  [p EXCEPT !.columns = <<>>, !.order_by = <<>>, !.limit = NullLimit,
            !.missing = @ \ {"columns", "order_by"}]

ExtractMetrics(q, p) ==
  LET lower == ToLowerCase(Chars(q))
      p0 == [p EXCEPT !.metrics = <<>>, !.missing = @ \ {"metrics"}]
      matching == {r \in 1..Len(METRIC_KEYWORDS) :
                     \E w \in 1..Len(METRIC_KEYWORDS[r].words) :
                        StrIncludes(lower, Chars(METRIC_KEYWORDS[r].words[w]))}
  IN IF matching = {} THEN Returned(p0)
     ELSE LET rule == METRIC_KEYWORDS[CHOOSE r \in matching : \A s \in matching : r <= s]
              inferred == InferMetricColumn(rule.agg, p0)
          IN IF inferred.err # NoError THEN Thrown(p0, inferred.err)
             ELSE Returned(ForceAggregationMode([p0 EXCEPT
                    !.metrics = <<[aggregation |-> rule.agg, column |-> inferred.column]>>]))

(***************************************************************************)
(* Table resolver and SQL Builder                                          *)
(* The SQL text is kept as the pieces the template literals put together:  *)
(* "ident" pieces are interpolated names, "agg" and "op" interpolated      *)
(* aggregation names and operators, "lit" rendered values.                 *)
(***************************************************************************)
Txt(s) == [k |-> "text", s |-> s]
Piece(k, s) == [k |-> k, s |-> s]

\* `"${name}"`
QuotedIdent(name) == <<Txt("\""), Piece("ident", name), Txt("\"")>>

\* parts.join(sep)
RECURSIVE Join(_, _)
Join(parts, sep) ==
  IF Len(parts) = 0 THEN <<>>
  ELSE IF Len(parts) = 1 THEN parts[1]
  ELSE parts[1] \o <<Txt(sep)>> \o Join(Tail(parts), sep)

\* the text the pieces make
RECURSIVE Render(_)
Render(pieces) == IF Len(pieces) = 0 THEN "" ELSE pieces[1].s \o Render(Tail(pieces))

\* s.replace(/'/g, "''") on characters
RECURSIVE DoubleQuotes(_)
DoubleQuotes(cs) ==
  IF Len(cs) = 0 THEN <<>>
  ELSE (IF cs[1] = "'" THEN <<"'", "'">> ELSE <<cs[1]>>) \o DoubleQuotes(Tail(cs))

\* the rendering of a filter value
RenderValue(v) ==
  IF v.isNumber THEN ToString(v.n)
  ELSE "'" \o Concat(DoubleQuotes(Chars(v.s))) \o "'"

NoOverride == ""

\* [name, err]
ResolvePhysicalTable(logicalTable, explicitTableName, reg) ==
  IF explicitTableName # NoOverride
  THEN [name |-> explicitTableName, err |-> NoError]
  ELSE IF Unregistered(reg, logicalTable)
  THEN [name |-> "", err |-> UnknownLogicalTable(logicalTable)]
  ELSE IF GetLogicalTable(reg, logicalTable).physicalName = ""
  THEN [name |-> "", err |-> <<"Physical table not found for logical table: ", logicalTable>>]
  ELSE [name |-> GetLogicalTable(reg, logicalTable).physicalName, err |-> NoError]

MetricPart(m) ==
  IF m.aggregation = "COUNT" /\ (m.column = "" \/ m.column = "*")
  THEN <<Txt("COUNT(*)")>>
  ELSE <<Piece("agg", m.aggregation), Txt("(")>> \o QuotedIdent(m.column) \o <<Txt(")")>>

FilterPart(f) ==
  QuotedIdent(f.column)
    \o <<Txt(" "), Piece("op", f.operator), Txt(" "), Piece("lit", RenderValue(f.value))>>

\* the SELECT list with the metrics branch left out
SelectParts_NoMetrics(p) ==
  IF IsArray(p, "columns") /\ Len(p.columns) > 0
  THEN [i \in 1..Len(p.columns) |-> QuotedIdent(p.columns[i])]
  ELSE << <<Txt("*")>> >>

\* selectParts: the metrics when there are any, else the columns, else *
SelectParts(p) ==
  IF IsArray(p, "metrics") /\ Len(p.metrics) > 0
  THEN [i \in 1..Len(p.metrics) |-> MetricPart(p.metrics[i])]
  ELSE IF IsArray(p, "columns") /\ Len(p.columns) > 0
  THEN [i \in 1..Len(p.columns) |-> QuotedIdent(p.columns[i])]
  ELSE << <<Txt("*")>> >>

\* buildSQL with the ORDER BY block moved above the GROUP BY block
BuildSQL_OrderByBeforeGroupBy(p, explicitTableName, reg) ==
  LET logicalTable == IF IsArray(p, "tables") /\ Len(p.tables) > 0
                      THEN p.tables[1] ELSE "undefined"
      physicalTable == ResolvePhysicalTable(logicalTable, explicitTableName, reg)
  IN IF physicalTable.err # NoError THEN [sql |-> <<>>, err |-> physicalTable.err]
  ELSE
  LET tableRef == <<Txt("\""), Piece("table", physicalTable.name), Txt("\"")>>
      select == <<Txt("SELECT ")>> \o Join(SelectParts(p), ", ") \o <<Txt(" FROM ")>> \o tableRef
      where ==
        IF IsArray(p, "filters") /\ Len(p.filters) > 0
        THEN <<Txt(" WHERE ")>>
               \o Join([i \in 1..Len(p.filters) |-> FilterPart(p.filters[i])], " AND ")
        ELSE <<>>
      groupBy ==
        IF IsArray(p, "group_by") /\ Len(p.group_by) > 0
        THEN <<Txt(" GROUP BY ")>>
               \o Join([i \in 1..Len(p.group_by) |-> QuotedIdent(p.group_by[i])], ", ")
        ELSE <<>>
      orderBy ==
        IF IsArray(p, "order_by") /\ Len(p.order_by) > 0
        THEN <<Txt(" ORDER BY ")>>
               \o Join([i \in 1..Len(p.order_by) |-> QuotedIdent(p.order_by[i])], ", ")
        ELSE <<>>
      limit ==
        IF p.limit.isNumber
        THEN <<Txt(" LIMIT "), Piece("lit", ToString(p.limit.n))>>
        ELSE <<>>
  IN [sql |-> select \o where \o orderBy \o groupBy \o limit, err |-> NoError]

\* [sql, err]: the pieces of the text buildSQL returns, or the error it throws
BuildSQL(p, explicitTableName, reg) ==
  LET logicalTable == IF IsArray(p, "tables") /\ Len(p.tables) > 0
                      THEN p.tables[1] ELSE "undefined"
      physicalTable == ResolvePhysicalTable(logicalTable, explicitTableName, reg)
  IN IF physicalTable.err # NoError THEN [sql |-> <<>>, err |-> physicalTable.err]
  ELSE
  LET tableRef == <<Txt("\""), Piece("table", physicalTable.name), Txt("\"")>>
      select == <<Txt("SELECT ")>> \o Join(SelectParts(p), ", ") \o <<Txt(" FROM ")>> \o tableRef
      where ==
        IF IsArray(p, "filters") /\ Len(p.filters) > 0
        THEN <<Txt(" WHERE ")>>
               \o Join([i \in 1..Len(p.filters) |-> FilterPart(p.filters[i])], " AND ")
        ELSE <<>>
      groupBy ==
        IF IsArray(p, "group_by") /\ Len(p.group_by) > 0
        THEN <<Txt(" GROUP BY ")>>
               \o Join([i \in 1..Len(p.group_by) |-> QuotedIdent(p.group_by[i])], ", ")
        ELSE <<>>
      orderBy ==
        IF IsArray(p, "order_by") /\ Len(p.order_by) > 0
        THEN <<Txt(" ORDER BY ")>>
               \o Join([i \in 1..Len(p.order_by) |-> QuotedIdent(p.order_by[i])], ", ")
        ELSE <<>>
      limit ==
        IF p.limit.isNumber
        THEN <<Txt(" LIMIT "), Piece("lit", ToString(p.limit.n))>>
        ELSE <<>>
  IN [sql |-> select \o where \o groupBy \o orderBy \o limit, err |-> NoError]

(***************************************************************************)
(* Inputs: the datasets that get registered, the plans the language model  *)
(* hands over, the questions                                               *)
(***************************************************************************)
OrdersColumns == {"id", "amount", "status"}

\* registerLogicalTable arguments: a physical table of a session, its columns
Uploads ==
  { [logicalName |-> "orders", physicalName |-> "session_a1_orders", columns |-> OrdersColumns],
    [logicalName |-> "orders", physicalName |-> "session_a1_orders", columns |-> {}] }

\* registerLogicalTable arguments of the request of another session, whose
\* file has the same name
OtherUploads ==
  { [logicalName |-> "orders", physicalName |-> "session_b2_orders", columns |-> OrdersColumns] }

Arr(v) == [missing |-> FALSE, v |-> v]
Missing == [missing |-> TRUE, v |-> <<>>]

Num(n) == [isNumber |-> TRUE, n |-> n, s |-> ""]
Str(s) == [isNumber |-> FALSE, n |-> 0, s |-> s]

F(c, o, v) == [column |-> c, operator |-> o, value |-> v]
M(a, c) == [aggregation |-> a, column |-> c]

TablesOptions ==
  { Arr(<<"orders">>), Missing, Arr(<<>>), Arr(<<"ghost">>),
    Arr(<<"orders", "ghost">>), Arr(<<"orders", "orders">>) }

ColumnsOptions ==
  { Arr(<<>>), Missing, Arr(<<"amount">>), Arr(<<"status">>), Arr(<<"bogus">>),
    Arr(<<"*">>), Arr(<<"status", "amount">>), Arr(<<"amount", "bogus">>) }

FiltersOptions ==
  { Arr(<<>>), Missing,
    Arr(<<F("amount", ">", Num(5))>>),
    Arr(<<F("bogus", "=", Num(5))>>),
    Arr(<<F("amount", "!=", Num(5))>>),
    Arr(<<F("status", "", Str("open"))>>),
    Arr(<<F("status", "LIKE", Str("o'k")), F("bogus", "=", Num(5))>>) }

MetricsOptions ==
  { Arr(<<>>), Missing,
    Arr(<<M("COUNT", "*")>>),
    Arr(<<M("COUNT", "")>>),
    Arr(<<M("AVG", "amount")>>),
    Arr(<<M("AVG", "*")>>),
    Arr(<<M("MEDIAN", "amount")>>),
    Arr(<<M("", "amount")>>),
    Arr(<<M("SUM", "bogus"), M("MAX", "amount")>>) }

GroupByOptions ==
  { Arr(<<>>), Missing, Arr(<<"status">>), Arr(<<"bogus">>), Arr(<<"status", "amount">>) }

OrderByOptions ==
  { Arr(<<>>), Missing, Arr(<<"amount">>), Arr(<<"status">>), Arr(<<"bogus">>), Arr(<<"*">>) }

LimitOptions == { NullLimit, [isNumber |-> TRUE, n |-> 10] }

PlanShapes ==
  [tables : TablesOptions, columns : ColumnsOptions, filters : FiltersOptions,
   metrics : MetricsOptions, group_by : GroupByOptions, order_by : OrderByOptions,
   limit : LimitOptions]

\* the number of fields of a shape that are not those of the empty plan
Deviations(x) ==
    (IF x.tables = Arr(<<"orders">>) THEN 0 ELSE 1)
  + (IF x.columns = Arr(<<>>) THEN 0 ELSE 1)
  + (IF x.filters = Arr(<<>>) THEN 0 ELSE 1)
  + (IF x.metrics = Arr(<<>>) THEN 0 ELSE 1)
  + (IF x.group_by = Arr(<<>>) THEN 0 ELSE 1)
  + (IF x.order_by = Arr(<<>>) THEN 0 ELSE 1)
  + (IF x.limit = NullLimit THEN 0 ELSE 1)

ListFields == {"tables", "columns", "filters", "metrics", "group_by", "order_by"}

MkPlan(x) ==
  [intent |-> "select",
   tables |-> x.tables.v,
   columns |-> x.columns.v,
   filters |-> x.filters.v,
   metrics |-> x.metrics.v,
   group_by |-> x.group_by.v,
   order_by |-> x.order_by.v,
   limit |-> x.limit,
   missing |-> {f \in ListFields : x[f].missing}]

\* plans that select a column next to a metric and group
GroupedShapes ==
  { [tables |-> Arr(<<"orders">>), columns |-> Arr(<<"status">>), filters |-> Arr(<<>>),
     metrics |-> Arr(<<M("AVG", "amount")>>), group_by |-> g, order_by |-> o,
     limit |-> NullLimit] :
      g \in {Arr(<<"status">>), Arr(<<"bogus">>)},
      o \in {Arr(<<>>), Arr(<<"amount">>)} }

\* plans that filter, group, order and limit at once, with and without a
\* metric
FullShapes ==
  { [tables |-> Arr(<<"orders">>), columns |-> Arr(<<"status">>),
     filters |-> Arr(<<F("amount", ">", Num(5))>>),
     metrics |-> m, group_by |-> Arr(<<"status">>), order_by |-> Arr(<<"status">>),
     limit |-> [isNumber |-> TRUE, n |-> 10]] :
      m \in {Arr(<<>>), Arr(<<M("AVG", "amount")>>)} }

\* the plans structuredReasoning can hand over
Plans ==
  {MkPlan(x) : x \in {y \in PlanShapes : Deviations(y) <= MaxFields}
                       \cup GroupedShapes \cup FullShapes}

Questions == {"How many orders are there", "What is the average amount",
              "show all orders", "Total discount", "Sum of the minimum",
              "Lowest max price"}

\* buildSQL's options.explicitTableName
Overrides == {NoOverride, "session_b2_orders", "pg_shadow"}

(***************************************************************************)
(* Identifier and literal checks of sql-escape                             *)
(***************************************************************************)
Digits == {"0", "1", "2", "3", "4", "5", "6", "7", "8", "9"}

\* the characters /^[a-zA-Z0-9_-]+$/ admits
SafeIdentifierChars == Range(UpperChars) \cup Range(LowerChars) \cup Digits \cup {"_", "-"}

MaxIdentifierLength == 63

MaxSessionIdLength == 64

ValidateIdentifier(value) ==
  /\ value # ""
  /\ Len(Chars(value)) <= MaxIdentifierLength
  /\ Range(Chars(value)) \subseteq SafeIdentifierChars

ValidateSessionId(value) ==
  /\ value # ""
  /\ Len(Chars(value)) <= MaxSessionIdLength
  /\ Range(Chars(value)) \subseteq SafeIdentifierChars

\* safeVectorLiteral throws for a vector of another length or with an element
\* that is not a finite number
SafeVectorLiteralThrows(embedding, expectedDim) ==
  embedding.len # expectedDim \/ ~embedding.finite

\* safeSessionId / safeTableNameLiteral throw for a value that is given and
\* is not a valid identifier
SafeSessionIdThrows(sessionId) == sessionId # "" /\ ~ValidateSessionId(sessionId)

SafeTableNameLiteralThrows(tableName) == tableName # "" /\ ~ValidateIdentifier(tableName)

(***************************************************************************)
(* Query cache (conversation_query_cache)                                  *)
(* An embedding is given by its length, its direction and whether all its  *)
(* elements are finite numbers; the similarity of two embeddings is their  *)
(* cosine in hundredths.                                                   *)
(***************************************************************************)
\* Number(process.env.EMBEDDING_DIM || "768")
DefaultEmbeddingDim == 768

\* a dimension the environment can configure instead
OtherEmbeddingDim == 1536

\* the environment of the server process: whether the Supabase URL and the
\* service role key are set, and the configured EMBEDDING_DIM
Envs == [supabaseConfigured : BOOLEAN,
         EMBEDDING_DIM : {DefaultEmbeddingDim, OtherEmbeddingDim}]

\* findSimilarCachedQuery: params.minSimilarity ?? 0.70
MinSimilarity == 70

\* findSemanticCachedQuery: match_threshold: 0.75
MatchThreshold == 75

NullKey == <<>>

Similarity(a, b) ==
  IF a.dir = b.dir THEN 100
  ELSE IF a.dir - b.dir \in {1, -1} THEN 72
  ELSE 40

IsWhitespace(c) == c = " "

\* String.prototype.trim on characters
RECURSIVE TrimStart(_)
TrimStart(cs) ==
  IF Len(cs) > 0 /\ IsWhitespace(cs[1]) THEN TrimStart(Tail(cs)) ELSE cs

RECURSIVE TrimEnd(_)
TrimEnd(cs) ==
  IF Len(cs) > 0 /\ IsWhitespace(cs[Len(cs)])
  THEN TrimEnd(SubSeq(cs, 1, Len(cs) - 1)) ELSE cs

\* replace(/;\s*$/g, ""): the first semicolon followed by white space only
DropTrailingSemicolon(cs) ==
  LET at == {i \in 1..Len(cs) :
               cs[i] = ";" /\ \A j \in (i + 1)..Len(cs) : IsWhitespace(cs[j])}
  IN IF at = {} THEN cs
     ELSE SubSeq(cs, 1, (CHOOSE i \in at : \A j \in at : i <= j) - 1)

\* replace(/\s+/g, " ")
RECURSIVE CollapseWhitespace(_)
CollapseWhitespace(cs) ==
  IF Len(cs) = 0 THEN <<>>
  ELSE IF IsWhitespace(cs[1])
  THEN <<" ">> \o CollapseWhitespace(TrimStart(cs))
  ELSE <<cs[1]>> \o CollapseWhitespace(Tail(cs))

\* normalizeSql, on the characters of the text
NormalizeSql(cs) == CollapseWhitespace(DropTrailingSemicolon(TrimEnd(TrimStart(cs))))

\* the rows a lookup scoped by the given session / table (when given) sees
ScopedRows(rows, sessionId, tableName) ==
  {i \in 1..Len(rows) :
     /\ sessionId # "" => rows[i].session_id = sessionId
     /\ tableName # "" => rows[i].table_name = tableName}

\* the rows of a set that are nearest to the embedding
Nearest(rows, among, embedding) ==
  {i \in among :
     \A j \in among :
        Similarity(rows[j].question_embedding, embedding)
          <= Similarity(rows[i].question_embedding, embedding)}

\* searched: the search went to the database
Skipped == [threw |-> FALSE, hit |-> 0, searched |-> FALSE]
Miss == [threw |-> FALSE, hit |-> 0, searched |-> TRUE]
Hit(i) == [threw |-> FALSE, hit |-> i, searched |-> TRUE]
Threw == [threw |-> TRUE, hit |-> 0, searched |-> FALSE]

\* the outcomes findSimilarCachedQuery can have; rpcOk: execute_raw_sql
\* reports no error
FindSimilarCachedQuery(rows, sessionId, tableName, embedding, e, rpcOk) ==
  IF embedding.len = 0 THEN {Skipped}
  ELSE IF embedding.len # e.EMBEDDING_DIM THEN {Skipped}
  ELSE IF ~e.supabaseConfigured THEN {Threw}
  ELSE IF SafeVectorLiteralThrows(embedding, e.EMBEDDING_DIM) THEN {Threw}
  ELSE IF SafeSessionIdThrows(sessionId) \/ SafeTableNameLiteralThrows(tableName)
  THEN {Skipped}
  ELSE IF ~rpcOk THEN {Miss}
  ELSE LET scoped == ScopedRows(rows, sessionId, tableName) IN
       IF scoped = {} THEN {Miss}
       ELSE {IF Similarity(rows[i].question_embedding, embedding) < MinSimilarity
             THEN Miss ELSE Hit(i) : i \in Nearest(rows, scoped, embedding)}

\* storeQueryInCache without the check of the embedding's length
StoreQueryInCache_AnyLength(sessionId, tableName, q, sqlChars, embedding, e, insertOk) ==
  IF ~e.supabaseConfigured THEN [threw |-> TRUE, wrote |-> FALSE, row |-> <<>>]
  ELSE IF embedding.len = 0
  THEN [threw |-> FALSE, wrote |-> FALSE, row |-> <<>>]
  ELSE [threw |-> FALSE,
        wrote |-> insertOk /\ embedding.finite,
        row |-> [session_id |-> sessionId,
                 table_name |-> tableName,
                 question |-> q,
                 normalized_sql |-> NormalizeSql(sqlChars),
                 semantic_key |-> NullKey,
                 question_embedding |-> embedding]]

\* [threw, wrote, row]: what storeQueryInCache does; the insert of a vector
\* with an element that is not a number reports an error
StoreQueryInCache(sessionId, tableName, q, sqlChars, embedding, e, insertOk) ==
  IF ~e.supabaseConfigured THEN [threw |-> TRUE, wrote |-> FALSE, row |-> <<>>]
  ELSE IF embedding.len = 0 \/ embedding.len # e.EMBEDDING_DIM
  THEN [threw |-> FALSE, wrote |-> FALSE, row |-> <<>>]
  ELSE [threw |-> FALSE,
        wrote |-> insertOk /\ embedding.finite,
        row |-> [session_id |-> sessionId,
                 table_name |-> tableName,
                 question |-> q,
                 normalized_sql |-> NormalizeSql(sqlChars),
                 semantic_key |-> NullKey,
                 question_embedding |-> embedding]]

(***************************************************************************)
(* Semantic cache key and the two-tier lookup                              *)
(***************************************************************************)
AsciiChars ==
  <<" ", "!", "\"", "'", "*", ",", "-", "0", "1", "2", "3", "4", "5", "6", "7",
    "8", "9", ":", ";", "<", "=", ">">> \o UpperChars \o <<"[", "]", "_">>
    \o LowerChars \o <<"{", "}">>

CodeOf == [c \in Range(AsciiChars) |-> CHOOSE i \in 1..Len(AsciiChars) : AsciiChars[i] = c]

CharCode(c) == CodeOf[c]

\* a < b for sequences of numbers, the shorter first when it is a prefix
LexLess(a, b) ==
  \E x \in {a \o <<>>}, y \in {b \o <<>>} :
     \E differ \in {{k \in 1..Len(x) : k <= Len(y) /\ x[k] # y[k]}} :
        IF differ = {} THEN Len(x) < Len(y)
        ELSE \E k \in differ : (\A j \in differ : k <= j) /\ x[k] < y[k]

\* Array.prototype.sort() without a comparator: the order of the code units
StrLess(a, b) ==
  LexLess([i \in 1..Len(a) |-> CharCode(a[i])], [i \in 1..Len(b) |-> CharCode(b[i])])

\* the order of the collation localeCompare uses: white space, punctuation,
\* digits, letters; the case of a letter counts only between texts that are
\* otherwise equal, the lower case first
CollationChars ==
  <<" ", "_", "-", ",", ";", ":", "!", "'", "\"", "[", "]", "{", "}", "*", "<",
    "=", ">", "0", "1", "2", "3", "4", "5", "6", "7", "8", "9">> \o LowerChars

PrimaryWeightOf ==
  [c \in Range(CollationChars) \cup Range(UpperChars) |->
     CHOOSE k \in 1..Len(CollationChars) : CollationChars[k] = ToLowerCase(<<c>>)[1]]

PrimaryWeights(cs) == [i \in 1..Len(cs) |-> PrimaryWeightOf[cs[i]]]

CaseWeights(cs) ==
  [i \in 1..Len(cs) |-> IF cs[i] \in Range(UpperChars) THEN 1 ELSE 0]

\* the sort key of a text: its primary weights, then below every weight the
\* mark of their end, then the weights of the case
CollationKey(cs) == PrimaryWeights(cs) \o <<0>> \o CaseWeights(cs)

\* a.localeCompare(b) < 0
LocaleLess(a, b) == LexLess(CollationKey(a), CollationKey(b))

\* the keys as the numbers the comparison goes by
SortKeys(keys, locale) ==
  [i \in 1..Len(keys) |->
     IF locale THEN CollationKey(keys[i])
     ELSE [c \in 1..Len(keys[i]) |-> CharCode(keys[i][c])] \o <<>>] \o <<>>

\* the place entry i takes: after the entries of a lesser key and after the
\* earlier entries of an equal key
SortedPlace(k, i) ==
  1 + Cardinality({j \in 1..Len(k) :
                     \/ LexLess(k[j], k[i])
                     \/ ~LexLess(k[i], k[j]) /\ j < i})

\* the list left in the order it came in
SortByKeys_Unsorted(s, keys, locale) == s

\* Array.prototype.sort, which is stable: s ordered by its keys (keys[i] the
\* key of s[i]), compared by localeCompare when locale, by code units if not
SortByKeys(s, keys, locale) ==
  Value({ [p \in 1..Len(s) |-> s[CHOOSE i \in 1..Len(s) : SortedPlace(k, i) = p]] :
          k \in {SortKeys(keys, locale)} })

JsonString(s) == <<"\"">> \o Chars(s) \o <<"\"">>

JsonMember(name, valueChars) == JsonString(name) \o <<":">> \o valueChars

RECURSIVE JsonArray(_)
JsonArray(items) ==
  IF Len(items) = 0 THEN <<>>
  ELSE IF Len(items) = 1 THEN items[1]
  ELSE items[1] \o <<",">> \o JsonArray(Tail(items))

JsonMetric(m) ==
  <<"{">> \o JsonMember("aggregation", JsonString(m.aggregation)) \o <<",">>
          \o JsonMember("column", JsonString(m.column)) \o <<"}">>

JsonFilter(f) ==
  <<"{">> \o JsonMember("column", JsonString(f.column)) \o <<",">>
          \o JsonMember("operator", JsonString(f.operator)) \o <<",">>
          \o JsonMember("value", IF f.value.isNumber THEN Chars(ToString(f.value.n))
                                 ELSE JsonString(f.value.s)) \o <<"}">>

ArrayOrEmpty(p, f) == IF IsArray(p, f) THEN p[f] ELSE <<>>

\* the characters of the key buildSemanticCacheKey returns
BuildSemanticCacheKey(tableName, p) ==
  LET columns == ArrayOrEmpty(p, "columns")
      metrics == ArrayOrEmpty(p, "metrics")
      filters == ArrayOrEmpty(p, "filters")
      groupBy == ArrayOrEmpty(p, "group_by")
      sortedColumns == SortByKeys(columns, [i \in 1..Len(columns) |-> Chars(columns[i])], FALSE)
      sortedMetrics == SortByKeys(metrics, [i \in 1..Len(metrics) |-> JsonMetric(metrics[i])], TRUE)
      sortedFilters == SortByKeys(filters, [i \in 1..Len(filters) |-> JsonFilter(filters[i])], TRUE)
      sortedGroupBy == SortByKeys(groupBy, [i \in 1..Len(groupBy) |-> Chars(groupBy[i])], FALSE)
  IN <<"{">>
       \o JsonMember("table", JsonString(tableName)) \o <<",">>
       \o JsonMember("intent", JsonString(p.intent)) \o <<",">>
       \o JsonMember("columns", <<"[">> \o JsonArray([i \in 1..Len(columns) |-> JsonString(sortedColumns[i])]) \o <<"]">>) \o <<",">>
       \o JsonMember("metrics", <<"[">> \o JsonArray([i \in 1..Len(metrics) |-> JsonMetric(sortedMetrics[i])]) \o <<"]">>) \o <<",">>
       \o JsonMember("filters", <<"[">> \o JsonArray([i \in 1..Len(filters) |-> JsonFilter(sortedFilters[i])]) \o <<"]">>) \o <<",">>
       \o JsonMember("group_by", <<"[">> \o JsonArray([i \in 1..Len(groupBy) |-> JsonString(sortedGroupBy[i])]) \o <<"]">>)
       \o <<"}">>

\* the rows the RPC match_queries_by_embedding(query_embedding,
\* match_threshold, match_count: 1) can return: it is given no session and no
\* table, so it searches every row
MatchQueriesByEmbedding(rows, embedding, threshold) ==
  LET ok == {i \in 1..Len(rows) :
               Similarity(rows[i].question_embedding, embedding) >= threshold}
  IN IF embedding.finite THEN Nearest(rows, ok, embedding) ELSE {}

\* the outcomes findSemanticCachedQuery can have, with the tier that answered
FindSemanticCachedQuery(rows, sessionId, tableName, p, embedding, e) ==
  IF ~e.supabaseConfigured THEN {[threw |-> TRUE, hit |-> 0, reason |-> ""]}
  ELSE
  LET semanticKey == BuildSemanticCacheKey(tableName, p)
      exactHit == {i \in 1..Len(rows) :
                     /\ rows[i].session_id = sessionId
                     /\ rows[i].table_name = tableName
                     /\ rows[i].semantic_key # NullKey
                     /\ rows[i].semantic_key = semanticKey}
      similarHit == MatchQueriesByEmbedding(rows, embedding, MatchThreshold)
  IN IF exactHit # {}
     THEN {[threw |-> FALSE, hit |-> i, reason |-> "semantic_exact"] : i \in exactHit}
     ELSE IF similarHit # {}
     THEN {[threw |-> FALSE, hit |-> i, reason |-> "semantic_similar"] : i \in similarHit}
     ELSE {[threw |-> FALSE, hit |-> 0, reason |-> ""]}

(***************************************************************************)
(* Chat route: the operators of POST /api/chat                             *)
(***************************************************************************)
Sessions == {"a1", "b2"}

PhysicalTables == {"session_a1_orders", "session_b2_orders"}

\* the columns getTableSchema reports for a physical table
PhysicalColumns(physicalTableName) == OrdersColumns

\* physicalTableName.replace(/^session_[^_]+_/, "")
LogicalNameOf(physicalTableName) ==
  LET cs == Chars(physicalTableName)
      prefix == Chars("session_")
      ends == {k \in (Len(prefix) + 2)..Len(cs) :
                 /\ cs[k] = "_"
                 /\ \A j \in (Len(prefix) + 1)..(k - 1) : cs[j] # "_"}
  IN IF Len(cs) >= Len(prefix) /\ SubSeq(cs, 1, Len(prefix)) = prefix /\ ends # {}
     THEN Concat(SubSeq(cs, (CHOOSE k \in ends : TRUE) + 1, Len(cs)))
     ELSE physicalTableName

\* the length embedText requires of the vector of nomic-embed-text
ModelDim == 768

NoEmbedding == [len |-> 0, dir |-> 0, finite |-> TRUE]

\* the direction of the vector the embedding model gives a text
QuestionDir(q) ==
  IF q = "How many orders are there" THEN 1
  ELSE IF q = "show all orders" THEN 2
  ELSE 3

\* the vectors embedText can return: [] when the text is empty or the model
\* server fails, otherwise the array of 768 elements the server sent, whose
\* elements embedText does not look at
EmbedText(text) ==
  IF text = "" THEN {NoEmbedding}
  ELSE {NoEmbedding}
         \cup [len : {ModelDim}, dir : {QuestionDir(text)}, finite : BOOLEAN]

RequiresMetricKeywords ==
  <<"how many", "count", "number of", "average", "avg", "mean", "total", "sum",
    "maximum", "minimum", "max", "min">>

RequiresMetric(q) ==
  \E k \in 1..Len(RequiresMetricKeywords) :
     StrIncludes(ToLowerCase(Chars(q)), Chars(RequiresMetricKeywords[k]))

\* the characters of the text the pieces make
RECURSIVE SqlChars(_)
SqlChars(pieces) ==
  IF Len(pieces) = 0 THEN <<>> ELSE Chars(pieces[1].s) \o SqlChars(Tail(pieces))

\* route.ts: a question that asks for a metric gets COUNT(*) when
\* extractMetrics found none
EnforceMetric(message, p) ==
  IF RequiresMetric(message) /\ Len(p.metrics) = 0
  THEN [p EXCEPT !.metrics = <<[aggregation |-> "COUNT", column |-> "*"]>>,
                 !.columns = <<>>,
                 !.group_by = <<>>,
                 !.order_by = <<>>,
                 !.limit = NullLimit,
                 !.missing = @ \ {"columns", "group_by", "order_by"}]
  ELSE p

\* route.ts: tables is overwritten, "*" among the columns empties them, every
\* list that is not an array becomes []
PrepareForValidation(p, logicalTableName) ==
  [p EXCEPT !.tables = <<logicalTableName>>,
            !.columns = IF IsArray(p, "columns") /\ Includes(p.columns, "*")
                        THEN <<>> ELSE @,
            !.missing = {}]


RouteFailed(e) == [sql |-> <<>>, err |-> e]

\* route.ts: buildSQL(plan) on the plan validatePlan let through
RouteValidated(validated, reg) ==
  IF validated.err # NoError THEN RouteFailed(validated.err)
  ELSE BuildSQL(validated.plan, NoOverride, reg)

\* route.ts: validatePlan(plan) on the plan normalizePlan returned
RouteNormalized(normalized, reg) ==
  IF normalized.err # NoError THEN RouteFailed(normalized.err)
  ELSE Value({RouteValidated(validated, reg) :
                validated \in {ValidatePlan(normalized.plan, reg)}})

\* route.ts: plan = normalizePlan(plan)
RoutePrepared(prepared, reg) ==
  Value({RouteNormalized(normalized, reg) :
           normalized \in {NormalizePlan(prepared, reg)}})

\* route.ts: the overwrites before normalizePlan
RouteEnforced(enforced, logicalTableName, reg) ==
  Value({RoutePrepared(prepared, reg) :
           prepared \in {PrepareForValidation(enforced, logicalTableName)}})

\* route.ts: the COUNT(*) default on the plan extractMetrics returned
RouteExtracted(message, extracted, logicalTableName, reg) ==
  IF extracted.err # NoError THEN RouteFailed(extracted.err)
  ELSE Value({RouteEnforced(enforced, logicalTableName, reg) :
                enforced \in {EnforceMetric(message, extracted.plan)}})

\* route.ts from the plan structuredReasoning returned to the SQL text:
\* extractMetrics, the COUNT(*) default, the overwrites, normalizePlan,
\* validatePlan, buildSQL; [sql, err]
RoutePlan(message, llmPlan, logicalTableName, reg) ==
  Value({RouteExtracted(message, extracted, logicalTableName, reg) :
           extracted \in {ExtractMetrics(message, llmPlan)}})

\* the plans structuredReasoning returns in the chat model
ChatPlans ==
  { MkPlan([tables |-> Arr(<<"orders">>), columns |-> c, filters |-> Arr(<<>>),
            metrics |-> Arr(<<>>), group_by |-> Arr(<<>>), order_by |-> o,
            limit |-> NullLimit]) :
      c \in {Arr(<<>>), Arr(<<"amount">>)}, o \in {Arr(<<>>), Arr(<<"amount">>)} }

\* the message of a request body
Messages == {"", "How many orders are there", "show all orders"}

(***************************************************************************)
(* Cache operations called on their own                                    *)
(***************************************************************************)
\* the embeddings a caller can pass
Embeddings ==
  {NoEmbedding}
    \cup [len : {DefaultEmbeddingDim}, dir : 1..3, finite : BOOLEAN]
    \cup {[len |-> OtherEmbeddingDim, dir |-> 1, finite |-> TRUE]}

CacheQuestions == {"How many orders are there", "show all orders", "Total discount"}

\* the session and table of the requests that store
StoreScopes ==
  { <<"a1", "session_a1_orders">>, <<"b2", "session_b2_orders">>,
    <<"a1", "session_b2_orders">> }

\* sessionId arguments of a lookup: "" stands for undefined
LookupSessions == Sessions \cup {"", "a1' OR '1'='1"}

LookupTables == PhysicalTables \cup {""}

\* the SQL text stored for a table
SqlTextOf(tableName) ==
  IF tableName = "session_a1_orders"
  THEN Chars("SELECT * FROM \"session_a1_orders\"")
  ELSE Chars(" SELECT  *  FROM \"session_b2_orders\" ; ")

\* the plans findSemanticCachedQuery is given
KeyPlans ==
  { MkPlan([tables |-> Arr(<<"orders">>), columns |-> c, filters |-> Arr(<<>>),
            metrics |-> m, group_by |-> Arr(<<>>), order_by |-> Arr(<<>>),
            limit |-> NullLimit]) :
      c \in {Arr(<<"status", "amount">>), Missing},
      m \in {Arr(<<>>), Arr(<<M("SUM", "bogus"), M("MAX", "amount")>>)} }

\* the plans buildSemanticCacheKey is given: lists of two entries in both
\* orders, filters whose texts differ in the case of a letter only, and one
\* grouped plan with and without an ordering and a row limit
KeyPairPlans ==
  { [intent |-> "select", tables |-> <<"orders">>, columns |-> c, filters |-> f,
     metrics |-> m, group_by |-> g, order_by |-> <<>>, limit |-> NullLimit,
     missing |-> {}] :
      c \in {<<>>, <<"status", "amount">>, <<"amount", "status">>},
      f \in {<<F("status", "=", Str("open")), F("status", "=", Str("Open"))>>,
             <<F("status", "=", Str("Open")), F("status", "=", Str("open"))>>},
      m \in {<<>>, <<M("SUM", "amount"), M("MAX", "amount")>>,
             <<M("MAX", "amount"), M("SUM", "amount")>>},
      g \in {<<>>, <<"status", "amount">>, <<"amount", "status">>} }
    \cup
  { [intent |-> "select", tables |-> <<"orders">>, columns |-> <<"status", "amount">>,
     filters |-> <<F("status", "=", Str("open")), F("status", "=", Str("Open"))>>,
     metrics |-> <<M("SUM", "amount"), M("MAX", "amount")>>,
     group_by |-> <<"status", "amount">>, order_by |-> o, limit |-> l,
     missing |-> {}] :
      o \in {<<>>, <<"status">>}, l \in LimitOptions }

\* the last call of a cache function: its name and scope, the length of the
\* embedding it was given, whether it threw, wrote a row, searched, the row
\* it returned, and for buildSemanticCacheKey the keys of plan and of prev
NoLookup ==
  [fn |-> "", sessionId |-> "", tableName |-> "", len |-> 0, threw |-> FALSE,
   wrote |-> FALSE, searched |-> FALSE, hit |-> 0, key |-> NullKey, prevKey |-> NullKey]

Idle ==
  [pc |-> "idle", message |-> "", sessionId |-> "", tableName |-> "",
   embedding |-> NoEmbedding, sql |-> <<>>, status |-> 0, error |-> "",
   fromCache |-> FALSE, hit |-> 0, stored |-> 0, prior |-> {}, attempts |-> 0,
   failure |-> "", repairs |-> 0, arrival |-> 0, generation |-> 0]

\* withRetry in setup.ts and db.ts: retries = 3
SetupRetries == 3

\* what one invocation of fn settles with: the value v or the error v
Outcomes == [ok : BOOLEAN, v : 1..MaxOutcome]

\* no withRetry call in progress; of a call: the retries it was given, the
\* retries of the innermost call, the outcomes of the invocations of fn so
\* far, and the value it returned or the error it threw
NoRetry ==
  [pc |-> "idle", retries |-> 0, left |-> 0, log |-> <<>>, value |-> 0, error |-> 0]

\* withRetry(fn, retries, delayMs) is entered
StartWithRetry(retries) ==
  [NoRetry EXCEPT !.pc = "call", !.retries = retries, !.left = retries]

NoFailure == [thrown |-> FALSE, by |-> "", v |-> 0]

\* admin(): "Supabase URL or service role key is not configured"
ConfigFailure == [thrown |-> TRUE, by |-> "admin", v |-> 0]

\* the error of supa.rpc that the last invocation threw
RpcFailure(v) == [thrown |-> TRUE, by |-> "rpc", v |-> v]

Callers == 1..MaxCallers

\* ensureRagSetup: the warm-up and the six runDDL statements of the body
SetupSteps == 7

\* ragSetupPromise = null, the body not started, no caller yet; found is
\* the state of ragSetupPromise a caller saw when it called
NoSetup ==
  [promise |-> "null", starts |-> 0, step |-> 0, failure |-> NoFailure,
   callers |-> [c \in Callers |-> [pc |-> "idle", found |-> "", result |-> NoFailure]]]

\* no call of repairPlan yet
NoHeal ==
  [fn |-> "", message |-> "", failureType |-> "", logicalTableName |-> "",
   availableColumns |-> <<>>, isNull |-> FALSE, repaired |-> <<>>]

\* the database before any upload-csv request of the model: every table of
\* PhysicalTables was created once
NoUploads == [t \in PhysicalTables |-> [present |-> TRUE, generation |-> 0]]

Requests == 1..MaxRequests

pipelineVars == <<plan, prev, question, hist, err, sql, override>>

(***************************************************************************)
(* The pipeline on one plan                                                *)
(***************************************************************************)
Count(h, op) == Cardinality({i \in 1..Len(h) : h[i] = op})

LastCall == IF Len(hist) = 0 THEN "" ELSE hist[Len(hist)]

Rank(op) ==
  IF op = "extractMetrics" THEN 1
  ELSE IF op = "normalizePlan" THEN 2
  ELSE IF op = "validatePlan" THEN 3
  ELSE 4

\* the stages run in the route's order; a stage may be left out, and one
\* may be applied a second time to what it returned
MayCall(op) ==
  /\ err = NoError
  /\ \A i \in 1..Len(hist) : Rank(hist[i]) <= Rank(op)
  /\ Count(hist, op) <= 1

Init ==
  /\ registry = [t \in TableNames |-> NoEntry]
  /\ plan \in Plans
  /\ prev = plan
  /\ question = ""
  /\ hist = <<>>
  /\ err = NoError
  /\ sql = <<>>
  /\ override = NoOverride
  /\ cache = <<>>
  /\ env = [supabaseConfigured |-> TRUE, EMBEDDING_DIM |-> DefaultEmbeddingDim]
  /\ lookup = NoLookup
  /\ reqs = [r \in Requests |-> Idle]
  /\ tables = NoUploads
  /\ setup = NoSetup
  /\ retry = NoRetry
  /\ heal = NoHeal

RegisterLogicalTable ==
  /\ hist = <<>>
  /\ \E u \in Uploads :
       /\ registry[u.logicalName] # [present |-> TRUE, physicalName |-> u.physicalName,
                                     columns |-> u.columns]
       /\ registry' = RegisterLogicalTableFn(registry, u.logicalName, u.physicalName, u.columns)
  /\ UNCHANGED <<plan, prev, question, hist, err, sql, override, cache, env, heal, setup, retry, tables, lookup, reqs>>

CallExtractMetrics ==
  /\ MayCall("extractMetrics")
  /\ \E q \in Questions :
       /\ question \in {"", q}
       /\ question' = q
       /\ LET r == ExtractMetrics(q, plan) IN
            /\ plan' = r.plan
            /\ err' = r.err
  /\ prev' = plan
  /\ hist' = Append(hist, "extractMetrics")
  /\ UNCHANGED <<registry, sql, override, cache, env, heal, setup, retry, tables, lookup, reqs>>

CallNormalizePlan ==
  /\ MayCall("normalizePlan")
  /\ LET r == NormalizePlan(plan, registry) IN
       /\ plan' = r.plan
       /\ err' = r.err
  /\ prev' = plan
  /\ hist' = Append(hist, "normalizePlan")
  /\ UNCHANGED <<registry, question, sql, override, cache, env, heal, setup, retry, tables, lookup, reqs>>

CallValidatePlan ==
  /\ MayCall("validatePlan")
  /\ Count(hist, "validatePlan") = 0
  /\ LET r == ValidatePlan(plan, registry) IN
       /\ plan' = r.plan
       /\ err' = r.err
  /\ prev' = plan
  /\ hist' = Append(hist, "validatePlan")
  /\ UNCHANGED <<registry, question, sql, override, cache, env, heal, setup, retry, tables, lookup, reqs>>

\* registerLogicalTable by the request of another session, after the SQL of
\* the plan was built: the registry is the one of the server process
ReRegisterLogicalTable ==
  /\ LastCall = "buildSQL"
  /\ err = NoError
  /\ \E u \in OtherUploads :
       /\ registry[u.logicalName] # [present |-> TRUE, physicalName |-> u.physicalName,
                                     columns |-> u.columns]
       /\ registry' = RegisterLogicalTableFn(registry, u.logicalName, u.physicalName, u.columns)
  /\ UNCHANGED <<plan, prev, question, hist, err, sql, override, cache, env, heal, setup, retry, tables, lookup, reqs>>

\* buildSQL is given plans that passed validatePlan; a second call is given
\* the plan and the options of the first
CallBuildSQL ==
  /\ MayCall("buildSQL")
  /\ Count(hist, "validatePlan") = 1
  /\ \E o \in Overrides :
       /\ (Count(hist, "buildSQL") = 1) => (o = override)
       /\ LET r == BuildSQL(plan, o, registry) IN
            /\ sql' = r.sql
            /\ err' = r.err
            /\ override' = o
  /\ prev' = plan
  /\ hist' = Append(hist, "buildSQL")
  /\ UNCHANGED <<registry, plan, question, cache, env, heal, setup, retry, tables, lookup, reqs>>

Next ==
  \/ RegisterLogicalTable
  \/ CallExtractMetrics
  \/ CallNormalizePlan
  \/ CallValidatePlan
  \/ CallBuildSQL
  \/ ReRegisterLogicalTable

Spec == Init /\ [][Next]_vars

(***************************************************************************)
(* The query cache on its own: stores and lookups in any order             *)
(***************************************************************************)
InitCache ==
  /\ registry = [t \in TableNames |-> NoEntry]
  /\ plan = MkPlan([tables |-> Arr(<<"orders">>), columns |-> Arr(<<>>),
                    filters |-> Arr(<<>>), metrics |-> Arr(<<>>),
                    group_by |-> Arr(<<>>), order_by |-> Arr(<<>>),
                    limit |-> NullLimit])
  /\ prev = plan
  /\ question = ""
  /\ hist = <<>>
  /\ err = NoError
  /\ sql = <<>>
  /\ override = NoOverride
  /\ cache = <<>>
  /\ env \in Envs
  /\ lookup = NoLookup
  /\ reqs = [r \in Requests |-> Idle]
  /\ tables = NoUploads
  /\ setup = NoSetup
  /\ retry = NoRetry
  /\ heal = NoHeal

CacheStore ==
  /\ Len(cache) < MaxRows
  /\ \E scope \in StoreScopes, q \in CacheQuestions,
        len \in {0, DefaultEmbeddingDim, OtherEmbeddingDim}, finite \in BOOLEAN,
        insertOk \in BOOLEAN :
       LET embedding == IF len = 0 THEN NoEmbedding
                        ELSE [len |-> len, dir |-> QuestionDir(q), finite |-> finite]
           r == StoreQueryInCache(scope[1], scope[2], q, SqlTextOf(scope[2]),
                                  embedding, env, insertOk)
       IN /\ cache' = IF r.wrote THEN Append(cache, r.row) ELSE cache
          /\ lookup' = [NoLookup EXCEPT !.fn = "storeQueryInCache",
                          !.sessionId = scope[1], !.tableName = scope[2],
                          !.len = len, !.threw = r.threw, !.wrote = r.wrote]
  /\ UNCHANGED <<registry, pipelineVars, env, heal, setup, retry, tables, reqs>>

CacheFindSimilar ==
  /\ \E s \in LookupSessions, t \in LookupTables, e \in Embeddings, rpcOk \in BOOLEAN :
       \E out \in FindSimilarCachedQuery(cache, s, t, e, env, rpcOk) :
          lookup' = [NoLookup EXCEPT !.fn = "findSimilarCachedQuery",
                       !.sessionId = s, !.tableName = t, !.len = e.len,
                       !.threw = out.threw, !.searched = out.searched,
                       !.hit = out.hit]
  /\ UNCHANGED <<registry, pipelineVars, cache, env, heal, setup, retry, tables, reqs>>

CacheFindSemantic ==
  /\ \E s \in Sessions, t \in PhysicalTables, p \in KeyPlans, e \in Embeddings :
       \E out \in FindSemanticCachedQuery(cache, s, t, p, e, env) :
          lookup' = [NoLookup EXCEPT !.fn = "findSemanticCachedQuery",
                       !.sessionId = s, !.tableName = t, !.len = e.len,
                       !.threw = out.threw, !.hit = out.hit]
  /\ UNCHANGED <<registry, pipelineVars, cache, env, heal, setup, retry, tables, reqs>>

NextCache ==
  \/ CacheStore
  \/ CacheFindSimilar
  \/ CacheFindSemantic

SpecCache == InitCache /\ [][NextCache]_vars

(***************************************************************************)
(* buildSemanticCacheKey on two plans                                      *)
(***************************************************************************)
InitKey ==
  /\ registry = [t \in TableNames |-> NoEntry]
  /\ plan \in KeyPairPlans
  /\ prev \in KeyPairPlans
  /\ question = ""
  /\ hist = <<>>
  /\ err = NoError
  /\ sql = <<>>
  /\ override = NoOverride
  /\ cache = <<>>
  /\ env = [supabaseConfigured |-> TRUE, EMBEDDING_DIM |-> DefaultEmbeddingDim]
  /\ lookup = NoLookup
  /\ reqs = [r \in Requests |-> Idle]
  /\ tables = NoUploads
  /\ setup = NoSetup
  /\ retry = NoRetry
  /\ heal = NoHeal

\* buildSemanticCacheKey(tableName, plan) and buildSemanticCacheKey(tableName,
\* prev) for one table
BuildKeys ==
  /\ lookup.fn = ""
  /\ \E t \in PhysicalTables :
       lookup' = [NoLookup EXCEPT !.fn = "buildSemanticCacheKey", !.tableName = t,
                                  !.key = BuildSemanticCacheKey(t, plan),
                                  !.prevKey = BuildSemanticCacheKey(t, prev)]
  /\ UNCHANGED <<registry, pipelineVars, cache, env, heal, setup, retry, tables, reqs>>

NextKey == BuildKeys

SpecKey == InitKey /\ [][NextKey]_vars

(***************************************************************************)
(* POST /api/chat: each request advances from one await to the next, and   *)
(* the requests of the server process interleave at the awaits             *)
(***************************************************************************)
InitChat ==
  /\ registry = [t \in TableNames |-> NoEntry]
  /\ plan = MkPlan([tables |-> Arr(<<"orders">>), columns |-> Arr(<<>>),
                    filters |-> Arr(<<>>), metrics |-> Arr(<<>>),
                    group_by |-> Arr(<<>>), order_by |-> Arr(<<>>),
                    limit |-> NullLimit])
  /\ prev = plan
  /\ question = ""
  /\ hist = <<>>
  /\ err = NoError
  /\ sql = <<>>
  /\ override = NoOverride
  /\ cache = <<>>
  /\ env \in Envs
  /\ lookup = NoLookup
  /\ reqs = [r \in Requests |-> Idle]
  /\ tables = NoUploads
  /\ setup = NoSetup
  /\ retry = NoRetry
  /\ heal = NoHeal

Respond(r, status, error) ==
  [reqs EXCEPT ![r].pc = "done", ![r].status = status, ![r].error = error]

\* withRetry: the call and Retries further calls of the same function
Retries == 2

\* analyzeSqlFailure: categories the message of an execution error falls
\* in, one that repairPlan has a repair for and the one it has none for
FailureTypes == {"COLUMN_NOT_FOUND", "UNHEALABLE"}

\* withRetry(executeQuery(sql)) rejected: every call ran the same text, and
\* the error goes to the catch of the handler, which answers 500; the
\* handler has no call of analyzeSqlFailure or repairPlan
ExecutionFailed(r, failure) ==
  [Respond(r, 500, "execute") EXCEPT ![r].attempts = Retries + 1,
                                     ![r].failure = failure]

\* the physical table the client of a session asks about
TableOf(sessionId) == "session_" \o sessionId \o "_orders"

\* findLatestTable: the last session_% table by name, null when there is
\* none (and when the query fails)
LatestTable ==
  IF \A t \in PhysicalTables : ~tables[t].present THEN ""
  ELSE CHOOSE t \in PhysicalTables :
         /\ tables[t].present
         /\ \A u \in PhysicalTables : tables[u].present => ~StrLess(Chars(t), Chars(u))

\* ensureRagSetup, whose admin() throws when Supabase is not configured,
\* req.json(), the check of the message, the session; prior records the
\* requests that had been answered when this one arrived, and arrival how
\* many times the table of the session had been re-created by then
ChatReceive(r) ==
  /\ reqs[r].pc = "idle"
  /\ IF ~env.supabaseConfigured
     THEN reqs' = Respond(r, 500, "setup")
     ELSE \E m \in Messages, s \in Sessions :
            \E t \in {TableOf(s), ""} :
               LET got == [reqs EXCEPT ![r].message = m, ![r].sessionId = s,
                                       ![r].tableName = t,
                                       ![r].prior = {q \in Requests : reqs[q].pc = "done"},
                                       ![r].arrival = tables[TableOf(s)].generation]
               IN reqs' = IF m = ""
                          THEN [got EXCEPT ![r].pc = "done", ![r].status = 400,
                                           ![r].error = "invalid_input"]
                          ELSE [got EXCEPT ![r].pc = "schema"]
  /\ UNCHANGED <<registry, pipelineVars, cache, env, heal, setup, retry, tables, lookup>>

\* getTableSchema, the fallback to the latest table, registerLogicalTable,
\* embedText; with no embedding the lookup is skipped
ChatLoadSchema(r) ==
  /\ reqs[r].pc = "schema"
  /\ \E latest \in {LatestTable, ""}, e \in EmbedText(reqs[r].message) :
       LET physicalTableName ==
             IF reqs[r].tableName # "" /\ tables[reqs[r].tableName].present
             THEN reqs[r].tableName
             ELSE latest
       IN IF physicalTableName = ""
          THEN /\ reqs' = Respond(r, 400, "no_tables")
               /\ UNCHANGED registry
          ELSE /\ registry' = RegisterLogicalTableFn(registry,
                                 LogicalNameOf(physicalTableName), physicalTableName,
                                 PhysicalColumns(physicalTableName))
               /\ reqs' = [reqs EXCEPT ![r].tableName = physicalTableName,
                                       ![r].generation = tables[physicalTableName].generation,
                                       ![r].embedding = e,
                                       ![r].pc = IF e.len > 0 THEN "lookup" ELSE "reason"]
  /\ UNCHANGED <<pipelineVars, cache, env, heal, setup, retry, tables, lookup>>

\* withRetry(findSimilarCachedQuery): what makes the call throw is the
\* environment or the embedding, so the first call throws exactly when
\* every retry does
ChatLookup(r) ==
  /\ reqs[r].pc = "lookup"
  /\ \E rpcOk \in BOOLEAN :
       \E out \in FindSimilarCachedQuery(cache, reqs[r].sessionId, reqs[r].tableName,
                                        reqs[r].embedding, env, rpcOk) :
          reqs' =
            IF out.threw THEN Respond(r, 500, "cache_lookup")
            ELSE IF out.hit > 0
            THEN [reqs EXCEPT ![r].pc = "execCached", ![r].hit = out.hit,
                              ![r].sql = cache[out.hit].normalized_sql]
            ELSE [reqs EXCEPT ![r].pc = "reason"]
  /\ UNCHANGED <<registry, pipelineVars, cache, env, heal, setup, retry, tables, lookup>>

\* withRetry(executeQuery(cacheHit.normalized_sql)) and the cached response
ChatExecCached(r) ==
  /\ reqs[r].pc = "execCached"
  /\ \E execOk \in BOOLEAN :
       reqs' = IF execOk
               THEN [Respond(r, 200, "") EXCEPT ![r].fromCache = TRUE]
               ELSE [Respond(r, 500, "execute") EXCEPT ![r].attempts = Retries + 1]
  /\ UNCHANGED <<registry, pipelineVars, cache, env, heal, setup, retry, tables, lookup>>

\* structuredReasoning, then the plan is taken to SQL without an await
ChatReason(r) ==
  /\ reqs[r].pc = "reason"
  /\ \E llmPlan \in ChatPlans :
       \E built \in {RoutePlan(reqs[r].message, llmPlan,
                                LogicalNameOf(reqs[r].tableName), registry)} :
          reqs' = IF built.err # NoError
                  THEN Respond(r, 500, "pipeline")
                  ELSE [reqs EXCEPT ![r].pc = "exec", ![r].sql = SqlChars(built.sql)]
  /\ UNCHANGED <<registry, pipelineVars, cache, env, heal, setup, retry, tables, lookup>>

\* withRetry(executeQuery(sqlQuery)), the explanation, addMemory
ChatExec(r) ==
  /\ reqs[r].pc = "exec"
  /\ \E execOk \in BOOLEAN, failure \in FailureTypes :
       reqs' = IF ~execOk THEN ExecutionFailed(r, failure)
               ELSE IF reqs[r].embedding.len > 0 THEN [reqs EXCEPT ![r].pc = "store"]
               ELSE Respond(r, 200, "")
  /\ UNCHANGED <<registry, pipelineVars, cache, env, heal, setup, retry, tables, lookup>>

\* storeQueryInCache and the response
ChatStore(r) ==
  /\ reqs[r].pc = "store"
  /\ \E insertOk \in BOOLEAN :
       LET s == StoreQueryInCache(reqs[r].sessionId, reqs[r].tableName, reqs[r].message,
                                  reqs[r].sql, reqs[r].embedding, env, insertOk)
       IN /\ cache' = IF s.wrote THEN Append(cache, s.row) ELSE cache
          /\ reqs' = IF s.threw THEN Respond(r, 500, "cache_store")
                      ELSE [Respond(r, 200, "") EXCEPT
                              ![r].stored = IF s.wrote THEN Len(cache) + 1 ELSE 0]
  /\ UNCHANGED <<registry, pipelineVars, env, heal, setup, retry, tables, lookup>>

NextChat ==
  \/ \E r \in Requests : ChatReceive(r)
  \/ \E r \in Requests : ChatLoadSchema(r)
  \/ \E r \in Requests : ChatLookup(r)
  \/ \E r \in Requests : ChatExecCached(r)
  \/ \E r \in Requests : ChatReason(r)
  \/ \E r \in Requests : ChatExec(r)
  \/ \E r \in Requests : ChatStore(r)

SpecChat == InitChat /\ [][NextChat]_vars

(***************************************************************************)
(* POST /api/upload-csv next to the chat requests of the session           *)
(***************************************************************************)
InitUpload ==
  /\ InitChat
  /\ env = [supabaseConfigured |-> TRUE, EMBEDDING_DIM |-> DefaultEmbeddingDim]

\* the file orders.csv uploaded again by a session: buildTableName gives the
\* name of the table the session has, DROP TABLE IF EXISTS removes it, and
\* CREATE TABLE and INSERT make the new one; when one of the two fails the
\* table stays dropped. No statement of the handler touches
\* conversation_query_cache.
Upload(sessionId) ==
  /\ tables[TableOf(sessionId)].generation < MaxUploads
  /\ \E created \in BOOLEAN :
       tables' = [tables EXCEPT ![TableOf(sessionId)] =
                    [present |-> created, generation |-> @.generation + 1]]
  /\ UNCHANGED <<registry, pipelineVars, cache, env, heal, setup, retry, lookup, reqs>>

\* the session that uploads
UploadSession == "a1"

\* the chat requests next to the upload are those of the session that uploads
ChatReceiveOfUploader(r) ==
  /\ ChatReceive(r)
  /\ reqs'[r].sessionId = UploadSession

NextUpload ==
  \/ Upload(UploadSession)
  \/ \E r \in Requests : ChatReceiveOfUploader(r)
  \/ \E r \in Requests : ChatLoadSchema(r)
  \/ \E r \in Requests : ChatLookup(r)
  \/ \E r \in Requests : ChatExecCached(r)
  \/ \E r \in Requests : ChatReason(r)
  \/ \E r \in Requests : ChatExec(r)
  \/ \E r \in Requests : ChatStore(r)

SpecUpload == InitUpload /\ [][NextUpload]_vars


(***************************************************************************)
(* analyzeSqlFailure and repairPlan of selfHealing.ts                      *)
(***************************************************************************)
\* the category of the message of an execution error
AnalyzeSqlFailure(message) ==
  LET msg == ToLowerCase(Chars(message))
  IN IF StrIncludes(msg, Chars("does not exist")) THEN "COLUMN_NOT_FOUND"
     ELSE IF StrIncludes(msg, Chars("session")) THEN "SESSION_MISMATCH"
     ELSE IF StrIncludes(msg, Chars("syntax")) THEN "PLAN_INCONSISTENT"
     ELSE "UNHEALABLE"

\* s.filter(c => availableColumns.includes(c))
RECURSIVE FilterAvailable(_, _)
FilterAvailable(s, availableColumns) ==
  IF Len(s) = 0 THEN <<>>
  ELSE (IF Includes(availableColumns, s[1]) THEN <<s[1]>> ELSE <<>>)
         \o FilterAvailable(Tail(s), availableColumns)

\* [isNull, plan, input]: null or the new plan object, and the plan object
\* that was passed, which the spread copies and no statement writes to
RepairPlan(p, failureType, logicalTableName, availableColumns) ==
  IF failureType = "COLUMN_NOT_FOUND"
  THEN [isNull |-> FALSE, input |-> p,
        plan |-> [p EXCEPT !.columns = FilterAvailable(p.columns, availableColumns)]]
  ELSE IF failureType = "SESSION_MISMATCH"
  THEN [isNull |-> FALSE, input |-> p, plan |-> [p EXCEPT !.tables = <<logicalTableName>>]]
  ELSE IF failureType = "PLAN_INCONSISTENT"
  THEN [isNull |-> FALSE, input |-> p,
        plan |-> [p EXCEPT !.filters = <<>>, !.order_by = <<>>]]
  ELSE [isNull |-> TRUE, input |-> p, plan |-> p]

\* messages of execution errors
ErrorMessages ==
  {"column \"discount\" does not exist", "Session not found",
   "syntax error at or near \"FROM\"", "permission denied",
   "relation \"session_a1_orders\" does not exist"}

\* ctx.availableColumns: the columns of the table, without and with the
\* column the plans below name
AvailableColumnsOptions ==
  {<<"id", "amount", "status">>, <<"id", "amount", "status", "discount">>}

\* plans that were executed: they name the column discount in columns, in
\* a filter, in order_by, or nowhere
HealPlans ==
  { [intent |-> "select", tables |-> <<t>>, columns |-> c, filters |-> f,
     metrics |-> <<>>, group_by |-> <<>>, order_by |-> o, limit |-> NullLimit,
     missing |-> {}] :
      t \in {"orders", "ghost"},
      c \in {<<>>, <<"amount", "discount">>, <<"discount">>},
      f \in {<<>>, <<F("discount", ">", Num(5))>>, <<F("status", "=", Str("open"))>>},
      o \in {<<>>, <<"discount">>} }

InitHeal ==
  /\ InitChat
  /\ env = [supabaseConfigured |-> TRUE, EMBEDDING_DIM |-> DefaultEmbeddingDim]

\* a plan was executed and the execution failed
ExecutePlan ==
  /\ hist = <<>>
  /\ plan' \in HealPlans
  /\ prev' = plan'
  /\ hist' = <<"executeQuery">>
  /\ UNCHANGED <<registry, question, err, sql, override, cache, env, lookup, reqs, tables,
                 setup, retry, heal>>

\* repairPlan(plan, analyzeSqlFailure(err), ctx)
CallRepairPlan ==
  /\ hist = <<"executeQuery">>
  /\ \E message \in ErrorMessages, availableColumns \in AvailableColumnsOptions :
       LET failureType == AnalyzeSqlFailure(message)
           r == RepairPlan(plan, failureType, "orders", availableColumns)
       IN /\ heal' = [fn |-> "repairPlan", message |-> message,
                      failureType |-> failureType, logicalTableName |-> "orders",
                      availableColumns |-> availableColumns,
                      isNull |-> r.isNull, repaired |-> r.plan]
          /\ plan' = r.input
  /\ prev' = plan
  /\ hist' = Append(hist, "repairPlan")
  /\ UNCHANGED <<registry, question, err, sql, override, cache, env, lookup, reqs, tables,
                 setup, retry>>

NextHeal ==
  \/ ExecutePlan
  \/ CallRepairPlan

SpecHeal == InitHeal /\ [][NextHeal]_vars

(***************************************************************************)
(* withRetry(fn, retries, delayMs) of db.ts, setup.ts and the chat route   *)
(***************************************************************************)
\* if (retries <= 0) throw err
RetriesExhausted_BelowZero(left) == left < 0

RetriesExhausted(left) == left <= 0

\* try { return await fn() } catch (err) { if (retries <= 0) throw err ...
WithRetryInvoke ==
  /\ retry.pc = "call"
  /\ \E o \in Outcomes :
       retry' = IF o.ok
                THEN [retry EXCEPT !.log = Append(@, o), !.pc = "returned", !.value = o.v]
                ELSE IF RetriesExhausted(retry.left)
                THEN [retry EXCEPT !.log = Append(@, o), !.pc = "thrown", !.error = o.v]
                ELSE [retry EXCEPT !.log = Append(@, o), !.pc = "sleep"]
  /\ UNCHANGED <<registry, pipelineVars, cache, env, heal, lookup, reqs, tables, setup>>

\* await sleep(delayMs); return withRetry(fn, retries - 1, delayMs)
WithRetrySleep ==
  /\ retry.pc = "sleep"
  /\ retry' = [retry EXCEPT !.pc = "call", !.left = @ - 1]
  /\ UNCHANGED <<registry, pipelineVars, cache, env, heal, lookup, reqs, tables, setup>>

\* the retries a caller passes: the defaults 2 and 3, and fewer
RetryOptions == 0..SetupRetries

InitRetry ==
  /\ InitChat
  /\ env = [supabaseConfigured |-> TRUE, EMBEDDING_DIM |-> DefaultEmbeddingDim]

CallWithRetry ==
  /\ retry.pc = "idle"
  /\ \E n \in RetryOptions : retry' = StartWithRetry(n)
  /\ UNCHANGED <<registry, pipelineVars, cache, env, heal, lookup, reqs, tables, setup>>

NextRetry ==
  \/ CallWithRetry
  \/ WithRetryInvoke
  \/ WithRetrySleep

\* every invocation of fn settles and the timer of sleep fires
SpecRetry == InitRetry /\ [][NextRetry]_vars /\ WF_vars(NextRetry)

(***************************************************************************)
(* ensureRagSetup and its callers                                          *)
(***************************************************************************)
\* if (ragSetupPromise)
RagSetupPromiseSet_UnlessRejected == setup.promise \in {"pending", "fulfilled"}

RagSetupPromiseSet == setup.promise # "null"

InitSetup == InitChat

\* ensureRagSetup(): the promise there is, or the promise of the body, which
\* runs up to its first await in the call: admin() throws when Supabase is
\* not configured, otherwise the warm-up enters withRetry
EnsureRagSetup(c) ==
  /\ setup.callers[c].pc = "idle"
  /\ LET called == [setup EXCEPT !.callers[c].pc = "awaiting",
                                 !.callers[c].found = setup.promise]
     IN IF RagSetupPromiseSet
        THEN /\ setup' = called
             /\ UNCHANGED retry
        ELSE IF ~env.supabaseConfigured
        THEN /\ setup' = [called EXCEPT !.promise = "rejected", !.starts = @ + 1,
                                        !.failure = ConfigFailure]
             /\ UNCHANGED retry
        ELSE /\ setup' = [called EXCEPT !.promise = "pending", !.starts = @ + 1,
                                        !.step = 1]
             /\ retry' = StartWithRetry(SetupRetries)
  /\ UNCHANGED <<registry, pipelineVars, cache, env, heal, lookup, reqs, tables>>

\* the withRetry of a statement of the body returned: the next statement,
\* and after the last the promise is fulfilled
SetupStepDone ==
  /\ setup.promise = "pending"
  /\ retry.pc = "returned"
  /\ IF setup.step < SetupSteps
     THEN /\ setup' = [setup EXCEPT !.step = @ + 1]
          /\ retry' = StartWithRetry(SetupRetries)
     ELSE /\ setup' = [setup EXCEPT !.promise = "fulfilled"]
          /\ retry' = NoRetry
  /\ UNCHANGED <<registry, pipelineVars, cache, env, heal, lookup, reqs, tables>>

\* the withRetry of a statement threw: the body has no catch, and the
\* promise is rejected with the error
SetupStepFailed ==
  /\ setup.promise = "pending"
  /\ retry.pc = "thrown"
  /\ setup' = [setup EXCEPT !.promise = "rejected", !.failure = RpcFailure(retry.error)]
  /\ retry' = NoRetry
  /\ UNCHANGED <<registry, pipelineVars, cache, env, heal, lookup, reqs, tables>>

\* await ensureRagSetup() of a caller continues when the promise is settled
CallerSettles(c) ==
  /\ setup.callers[c].pc = "awaiting"
  /\ setup.promise \in {"fulfilled", "rejected"}
  /\ setup' = [setup EXCEPT !.callers[c].pc = "settled",
                            !.callers[c].result = setup.failure]
  /\ UNCHANGED <<registry, pipelineVars, cache, env, heal, lookup, reqs, tables, retry>>

NextSetup ==
  \/ \E c \in Callers : EnsureRagSetup(c)
  \/ WithRetryInvoke
  \/ WithRetrySleep
  \/ SetupStepDone
  \/ SetupStepFailed
  \/ \E c \in Callers : CallerSettles(c)

SpecSetup == InitSetup /\ [][NextSetup]_vars

(***************************************************************************)
(* Properties of the pipeline                                              *)
(***************************************************************************)
Aggregations == {"COUNT", "SUM", "AVG", "MIN", "MAX"}

Operators == {"=", ">", "<", ">=", "<=", "LIKE"}

\* a plan of the TypeScript type StructuredPlan
StructurallyTyped(p) ==
  /\ p.missing \subseteq {"order_by", "metrics"}
  /\ \A i \in 1..Len(p.filters) : p.filters[i].operator \in Operators
  /\ \A i \in 1..Len(p.metrics) : p.metrics[i].aggregation \in Aggregations

\* the column set the registry holds for the first table of p
ResolvedColumns(p) ==
  IF IsArray(p, "tables") /\ Len(p.tables) > 0 /\ ~Unregistered(registry, p.tables[1])
  THEN registry[p.tables[1]].columns
  ELSE {}

\* C1: for every structurally-typed plan whose first table resolves in the
\* registry to a non-empty column set, validatePlan(normalizePlan(plan))
\* succeeds.
C1_NormalizedPlanPassesValidator ==
  ( /\ hist = <<"normalizePlan", "validatePlan">>
    /\ StructurallyTyped(prev)
    /\ ResolvedColumns(prev) # {} )
  => err = NoError

\* C2: after validatePlan returns without error, every name in columns, every
\* filter.column, every metric.column (except a COUNT metric on "*" or on no
\* column), every group_by entry and every order_by entry is a member of the
\* resolved table's column set.
C2_ValidatedNamesAreColumns ==
  (LastCall = "validatePlan" /\ err = NoError) =>
    LET valid == ResolvedColumns(plan) IN
      /\ \A i \in 1..Len(plan.columns) : plan.columns[i] \in valid
      /\ \A i \in 1..Len(plan.filters) : plan.filters[i].column \in valid
      /\ \A i \in 1..Len(plan.metrics) :
            \/ plan.metrics[i].aggregation = "COUNT" /\ plan.metrics[i].column \in {"*", ""}
            \/ plan.metrics[i].column \in valid
      /\ \A i \in 1..Len(plan.group_by) : plan.group_by[i] \in valid
      /\ \A i \in 1..Len(plan.order_by) : plan.order_by[i] \in valid

\* C3: validatePlan rejects every plan that has a metric whose aggregation is
\* not one of COUNT, SUM, AVG, MIN, MAX, and so every aggregation name
\* buildSQL renders in the projection is one of the five.
C3_OnlyFiveAggregations ==
  /\ ( /\ LastCall = "validatePlan"
       /\ IsArray(prev, "metrics")
       /\ \E i \in 1..Len(prev.metrics) : prev.metrics[i].aggregation \notin Aggregations )
     => err # NoError
  /\ \A i \in 1..Len(sql) : sql[i].k = "agg" => sql[i].s \in Aggregations

\* C4: validatePlan rejects every plan that has a filter whose operator is
\* not one of =, >, <, >=, <=, LIKE, and so every operator buildSQL places
\* in WHERE is one of the six.
C4_OnlySixOperators ==
  /\ ( /\ LastCall = "validatePlan"
       /\ IsArray(prev, "filters")
       /\ \E i \in 1..Len(prev.filters) : prev.filters[i].operator \notin Operators )
     => err # NoError
  /\ \A i \in 1..Len(sql) : sql[i].k = "op" => sql[i].s \in Operators

\* the piece i of the text stands between two double quotes
InDoubleQuotes(s, i) ==
  /\ i > 1 /\ s[i - 1] = Txt("\"")
  /\ i < Len(s) /\ s[i + 1] = Txt("\"")

\* C5: every table and column identifier buildSQL places in the SQL text is
\* wrapped in double quotes and is a name of the schema registry (the physical
\* name of a registered table, a column of the plan's table), also when
\* buildSQL is given an explicit table override.
C5_IdentifiersQuotedAndRegistered ==
  \A i \in 1..Len(sql) :
    /\ sql[i].k = "table" =>
         /\ InDoubleQuotes(sql, i)
         /\ \E t \in TableNames : registry[t].present /\ registry[t].physicalName = sql[i].s
    /\ sql[i].k = "ident" =>
         /\ InDoubleQuotes(sql, i)
         /\ sql[i].s \in ResolvedColumns(plan)

\* C6: for a question with a COUNT keyword about a registered table, the
\* stages extractMetrics, normalizePlan, validatePlan, buildSQL in this order
\* yield SQL whose projection is COUNT(*): the {COUNT, "*"} metric of the
\* extractor is still in the plan that reaches the builder.
C6_CountQuestionBuildsCountStar ==
  ( /\ question = "How many orders are there"
    /\ ResolvedColumns(plan) # {}
    /\ err = NoError )
  => /\ hist = <<"extractMetrics", "normalizePlan">>
          => plan.metrics = <<M("COUNT", "*")>>
     /\ hist = <<"extractMetrics", "normalizePlan", "validatePlan", "buildSQL">>
          => SubSeq(sql, 1, 3) = <<Txt("SELECT "), Txt("COUNT(*)"), Txt(" FROM ")>>

\* C7: normalization is idempotent: with the registry and the semantic column
\* resolver fixed, normalizePlan applied to a plan normalizePlan returned
\* returns that plan again.
C7_NormalizeIdempotent ==
  ( /\ Len(hist) >= 2
    /\ hist[Len(hist)] = "normalizePlan"
    /\ hist[Len(hist) - 1] = "normalizePlan" )
  => (err = NoError /\ plan = prev)

\* C7 witness: normalizePlan was applied to a plan it had returned for a
\* registered table, with no columns and no metrics left (the case in which
\* the second call consults the semantic column resolver).
C7_Witness ==
  /\ hist = <<"normalizePlan", "normalizePlan">>
  /\ ResolvedColumns(prev) # {}
  /\ Len(prev.columns) = 0
  /\ Len(prev.metrics) = 0
  /\ plan = prev

\* C8: normalizePlan never fails: when the plan designates no table, or its
\* first table is not registered, it returns the input plan unchanged.
C8_NormalizeNeverThrows ==
  LastCall = "normalizePlan" =>
    /\ err = NoError
    /\ ( \/ ~IsArray(prev, "tables") \/ Len(prev.tables) = 0
         \/ Unregistered(registry, prev.tables[1]) ) => plan = prev

(***************************************************************************)
(* Properties of the query cache and of the chat route                     *)
(***************************************************************************)
\* C9: a cache hit of a lookup made with session s and physical table t, by
\* findSimilarCachedQuery or by either tier of findSemanticCachedQuery, is a
\* row whose session_id is s and whose table_name is t
C9_HitIsOfTheSameSessionAndTable ==
  (lookup.hit > 0 /\ lookup.sessionId # "" /\ lookup.tableName # "")
    => /\ cache[lookup.hit].session_id = lookup.sessionId
       /\ cache[lookup.hit].table_name = lookup.tableName

\* C10: no chat request is answered with an error response because its
\* cache lookup or its cache store failed
C10_CacheFailureIsNotAnError ==
  \A r \in Requests :
     (reqs[r].pc = "done" /\ reqs[r].status >= 400)
       => reqs[r].error \notin {"cache_lookup", "cache_store"}

(***************************************************************************)
(* Properties of a request after an earlier one, and of a failed execution *)
(***************************************************************************)
\* the request ran the pipeline and answered with its result
AnsweredByPipeline(q) ==
  /\ reqs[q].pc = "done"
  /\ reqs[q].status = 200
  /\ ~reqs[q].fromCache

\* r arrived after q was answered and asks the same question of the same
\* session and table
RepeatOf(r, q) ==
  /\ q # r
  /\ q \in reqs[r].prior
  /\ reqs[r].message = reqs[q].message
  /\ reqs[r].sessionId = reqs[q].sessionId
  /\ reqs[r].tableName = reqs[q].tableName

\* C11: for two sequential identical questions on the same session and
\* table, where the first run went through the pipeline and stored a cache
\* entry and the second question was embedded in the configured dimension,
\* the second run is answered through the exact-fingerprint lookup
\* keyed by (sessionId, tableName, fingerprint): it hits a row that carries
\* a fingerprint and belongs to that session and table, and it does not run
\* planning.
C11_RepeatIsAnsweredByExactFingerprint ==
  \A q \in Requests, r \in Requests :
     ( /\ AnsweredByPipeline(q)
       /\ reqs[q].stored > 0
       /\ RepeatOf(r, q)
       /\ reqs[r].embedding.len = env.EMBEDDING_DIM
       /\ reqs[r].embedding.finite
       /\ reqs[r].pc = "done"
       /\ reqs[r].status = 200 )
       => /\ reqs[r].fromCache
          /\ reqs[r].hit > 0
          /\ cache[reqs[r].hit].semantic_key # NullKey
          /\ cache[reqs[r].hit].session_id = reqs[r].sessionId
          /\ cache[reqs[r].hit].table_name = reqs[r].tableName

\* C12: when the execution of the built SQL fails with a failure that has a
\* repair, the request performs exactly one repair-and-retry cycle through
\* Self-Healing before the error reaches the caller, and the text is not
\* executed again as it was.
C12_OneRepairBeforeTheErrorSurfaces ==
  \A r \in Requests :
     ( /\ reqs[r].pc = "done"
       /\ reqs[r].error = "execute"
       /\ reqs[r].failure \in FailureTypes \ {"UNHEALABLE"} )
       => /\ reqs[r].repairs = 1
          /\ reqs[r].attempts <= 1

(***************************************************************************)
(* Properties of the validator, the extractor and the builder              *)
(***************************************************************************)
\* the place of the first " FROM " piece of a SQL text, 0 when there is none
FromAt(s) == FirstIn(s, {Txt(" FROM ")})

\* the pieces between SELECT and FROM
Projection(s) == SubSeq(s, 2, FromAt(s) - 1)

\* the pieces metric m is rendered as are at place i of the projection
AggregateAt(proj, i, m) ==
  IF m.aggregation = "COUNT" /\ m.column \in {"", "*"}
  THEN proj[i] = Txt("COUNT(*)")
  ELSE /\ i + 5 <= Len(proj)
       /\ proj[i] = Piece("agg", m.aggregation)
       /\ proj[i + 3] = Piece("ident", m.column)

\* the number of aggregate items of a projection
Aggregates(proj) ==
  Cardinality({i \in 1..Len(proj) : proj[i].k = "agg" \/ proj[i] = Txt("COUNT(*)")})

\* C13: validatePlan never accepts a plan whose columns contain "*"; and for
\* every validated plan with columns = [], buildSQL emits the projection *
\* when metrics is empty, and a projection of one aggregate per metric,
\* the first metric's first, with no * item when metrics is non-empty.
C13_WildcardOnlyFromEmptyColumns ==
  /\ ( /\ LastCall = "validatePlan"
       /\ IsArray(prev, "columns")
       /\ Includes(prev.columns, "*") )
     => err # NoError
  /\ ( /\ LastCall = "buildSQL"
       /\ err = NoError
       /\ plan.columns = <<>> )
     => /\ sql[1] = Txt("SELECT ")
        /\ FromAt(sql) > 2
        /\ IF Len(plan.metrics) = 0
           THEN Projection(sql) = <<Txt("*")>>
           ELSE /\ AggregateAt(Projection(sql), 1, plan.metrics[1])
                /\ Aggregates(Projection(sql)) = Len(plan.metrics)
                /\ ~Includes(Projection(sql), Txt("*"))

C13_Witness ==
  /\ LastCall = "buildSQL"
  /\ err = NoError
  /\ plan.columns = <<>>
  /\ Len(plan.metrics) > 0
  /\ plan.metrics[1].aggregation # "COUNT"

\* the aggregation of the first rule of METRIC_KEYWORDS one of whose words
\* occurs in the lower-cased question, "" when no word does: "discount"
\* holds "count", the rule of SUM stands before MIN's, MAX's before MIN's
FirstRuleOf(q) ==
  IF q = "How many orders are there" THEN "COUNT"
  ELSE IF q = "What is the average amount" THEN "AVG"
  ELSE IF q = "Total discount" THEN "COUNT"
  ELSE IF q = "Sum of the minimum" THEN "SUM"
  ELSE IF q = "Lowest max price" THEN "MAX"
  ELSE ""

\* C14: for a question whose first matching keyword rule is AVG, SUM, MAX or
\* MIN and a plan whose columns are a list, extractMetrics either returns a
\* metric whose column is one of the plan's own column names and is not "*",
\* or fails with the 'Cannot infer numeric column' error.
C14_NonCountColumnIsOwnOrFails ==
  ( /\ LastCall = "extractMetrics"
    /\ IsArray(prev, "columns")
    /\ FirstRuleOf(question) \in {"AVG", "SUM", "MAX", "MIN"} )
  => IF err = NoError
     THEN /\ Len(plan.metrics) = 1
          /\ plan.metrics[1].column # "*"
          /\ Includes(prev.columns, plan.metrics[1].column)
     ELSE err = <<"Cannot infer numeric column for ", FirstRuleOf(question),
                  ". Ask user to specify a column.">>

\* C15: extractMetrics chooses the aggregation of the first rule, in the
\* order COUNT, AVG, SUM, MAX, MIN, one of whose keywords occurs in the
\* lower-cased question; the plan it returns carries exactly one metric, of
\* that aggregation, when some keyword occurs and no metric otherwise,
\* whatever metrics the incoming plan carried.
C15_OneMetricOfTheFirstRule ==
  (LastCall = "extractMetrics" /\ err = NoError)
  => /\ IsArray(plan, "metrics")
     /\ IF FirstRuleOf(question) = ""
        THEN plan.metrics = <<>>
        ELSE /\ Len(plan.metrics) = 1
             /\ plan.metrics[1].aggregation = FirstRuleOf(question)

C15_Witness ==
  /\ LastCall = "extractMetrics"
  /\ err = NoError
  /\ question = "Lowest max price"
  /\ Len(prev.metrics) > 0
  /\ prev.metrics[1].aggregation # "MAX"

(***************************************************************************)
(* Properties of the cache key and of the embeddings of the cache          *)
(***************************************************************************)
\* b holds the entries of a, each as often, in some order
IsPermutation(a, b) ==
  /\ Len(a) = Len(b)
  /\ \A x \in Range(a) :
        Cardinality({i \in 1..Len(a) : a[i] = x}) = Cardinality({i \in 1..Len(b) : b[i] = x})

\* p and q differ at most in the order of the entries of filters, metrics,
\* columns and group_by
SameUpToOrder(p, q) ==
  /\ p.intent = q.intent
  /\ p.tables = q.tables
  /\ p.order_by = q.order_by
  /\ p.limit = q.limit
  /\ p.missing = q.missing
  /\ IsPermutation(p.filters, q.filters)
  /\ IsPermutation(p.metrics, q.metrics)
  /\ IsPermutation(p.columns, q.columns)
  /\ IsPermutation(p.group_by, q.group_by)

EarlierErrors ==
  {"No table specified in plan", "Multiple tables not supported yet",
   "Unknown logical table: ", "No columns registered for table: ",
   "Invalid column \"*\". Use empty columns array to mean SELECT *",
   "Invalid column: ", "Invalid filter structure", "Invalid filter column: ",
   "Invalid metric structure", "Aggregation ", "Invalid metric column: "}

\* C18: validatePlan fails with 'GROUP BY required when using metrics with
\* columns' for every plan that passes the earlier checks and has non-empty
\* metrics, non-empty columns and an empty group_by; hence every accepted
\* plan with non-empty metrics and columns has a non-empty group_by.
C18_GroupByRequiredWithMetricsAndColumns ==
  LastCall = "validatePlan"
  => /\ ( /\ IsArray(prev, "metrics") /\ Len(prev.metrics) > 0
          /\ IsArray(prev, "columns") /\ Len(prev.columns) > 0
          /\ (~IsArray(prev, "group_by") \/ Len(prev.group_by) = 0) )
        => /\ err # NoError
           /\ \/ err[1] \in EarlierErrors
              \/ err = <<"GROUP BY required when using metrics with columns">>
     /\ (err = NoError /\ Len(plan.metrics) > 0 /\ Len(plan.columns) > 0)
        => Len(plan.group_by) > 0

C18_Witness ==
  /\ LastCall = "validatePlan"
  /\ err = <<"GROUP BY required when using metrics with columns">>

\* C19: a plan whose only metric is {COUNT, "*"}, with no columns, filters,
\* grouping or ordering, passes validatePlan against every registered table
\* with a non-empty column set; a plan that contains {AVG, "*"} always fails.
C19_CountStarPassesAvgStarFails ==
  LastCall = "validatePlan"
  => /\ ( /\ prev.metrics = <<M("COUNT", "*")>>
          /\ prev.missing = {}
          /\ Len(prev.tables) = 1
          /\ ResolvedColumns(prev) # {}
          /\ prev.columns = <<>> /\ prev.filters = <<>>
          /\ prev.group_by = <<>> /\ prev.order_by = <<>> )
        => err = NoError
     /\ (IsArray(prev, "metrics") /\ Includes(prev.metrics, M("AVG", "*")))
        => err # NoError

C19_Witness ==
  /\ LastCall = "validatePlan"
  /\ Includes(prev.metrics, M("AVG", "*"))
  /\ err = <<"Invalid metric column: ", "*">>

\* C20: buildSQL is deterministic: a second call of buildSQL on a validated
\* plan, with the options of the first, yields the SQL text of the first,
\* and the call leaves the plan as it was.
C20_BuildSQLTwiceGivesTheSameText ==
  [][ ( /\ LastCall = "buildSQL"
        /\ err = NoError
        /\ hist' = Append(hist, "buildSQL") )
      => /\ plan' = plan
         /\ err' = NoError
         /\ sql' = sql ]_vars

\* the SQL text the request built reads from the physical table t
ReadsFrom(r, t) ==
  StrIncludes(reqs[r].sql, Chars(" FROM ") \o <<"\"">> \o Chars(t) \o <<"\"">>)

\* C21: under every interleaving of chat requests, the SQL a request built
\* and executes reads from the physical table the request resolved for
\* itself, whatever registerLogicalTable calls other requests made for the
\* same logical name between its own registration and its buildSQL.
C21_RequestReadsItsOwnTable ==
  \A r \in Requests :
     reqs[r].pc \in {"exec", "store"} => ReadsFrom(r, reqs[r].tableName)

\* C22: extractMetrics is idempotent for a fixed question: applied to the
\* plan a first call with the same question returned, it completes without
\* error and returns that plan again.
C22_ExtractMetricsIdempotent ==
  ( /\ Len(hist) >= 2
    /\ hist[Len(hist)] = "extractMetrics"
    /\ hist[Len(hist) - 1] = "extractMetrics" )
  => /\ err = NoError
     /\ plan = prev

\* validatePlan accepts p when the table "orders" is registered with the
\* columns of the uploaded file
PassesValidator(p) ==
  ValidatePlan(p, RegisterLogicalTableFn(registry, "orders", lookup.tableName,
                                         OrdersColumns)).err = NoError

\* C23: two validated plans for the same table that have the same cache
\* fingerprint build the same SQL up to the order of columns, metrics,
\* filters and group_by: they have equal order_by and equal limit.
C23_SameKeySameOrderingAndLimit ==
  ( /\ lookup.fn = "buildSemanticCacheKey"
    /\ PassesValidator(plan)
    /\ PassesValidator(prev)
    /\ lookup.key = lookup.prevKey )
  => /\ SameUpToOrder(plan, prev)
     /\ plan.order_by = prev.order_by
     /\ plan.limit = prev.limit

\* r was answered with the SQL of a cache row that request q stored
ServedFromRowOf(r, q) ==
  /\ q # r
  /\ reqs[r].pc = "done"
  /\ reqs[r].hit > 0
  /\ reqs[q].stored = reqs[r].hit

\* C24: after a dataset is uploaded again under the same session and file
\* name, a later chat request on that table never executes SQL that was
\* cached for the previous version of the table: the SQL of a cache hit on
\* the table of the session was built on a version of the table that is no
\* older than the one in place when the request arrived.
C24_NoCachedSqlOfAnEarlierUpload ==
  \A r \in Requests, q \in Requests :
     ( /\ ServedFromRowOf(r, q)
       /\ reqs[r].tableName = TableOf(reqs[r].sessionId) )
     => reqs[q].generation >= reqs[r].arrival

\* what a settled caller of ensureRagSetup got is what the one promise of
\* the process was settled with
CallersShareThePromise ==
  \A c \in Callers :
     setup.callers[c].pc = "settled" =>
        /\ setup.promise \in {"fulfilled", "rejected"}
        /\ setup.callers[c].result = setup.failure
        /\ setup.callers[c].result.thrown <=> setup.promise = "rejected"

\* C25: ensureRagSetup starts the setup body at most once per server
\* process, whatever the number and interleaving of its callers: every call
\* after the first gets the promise of the first, so a setup that failed
\* after its retries is never attempted again and every later call fails
\* with the same error.
C25_SetupBodyStartsAtMostOnce ==
  /\ [](setup.starts <= 1)
  /\ [](setup.promise = "null" <=> setup.starts = 0)
  /\ []CallersShareThePromise
  /\ [][ setup.promise = "rejected" =>
           /\ setup'.promise = "rejected"
           /\ setup'.failure = setup.failure
           /\ setup'.starts = setup.starts
           /\ retry' = retry ]_vars

C25_Witness ==
  /\ setup.promise = "rejected"
  /\ setup.failure.by = "rpc"
  /\ \E c \in Callers, d \in Callers :
        /\ setup.callers[c].found = "null"
        /\ setup.callers[d].found = "rejected"
        /\ setup.callers[c].pc = "settled"
        /\ setup.callers[d].pc = "settled"
        /\ setup.callers[d].result = setup.callers[c].result

\* the invocations of fn before the last one all failed
OnlyTheLastMaySucceed ==
  \A i \in 1..(Len(retry.log) - 1) : ~retry.log[i].ok

\* C30: withRetry(fn, retries, delayMs) invokes fn at most retries + 1
\* times, returns the result of the first invocation that succeeds without
\* invoking fn again, and when every invocation fails it ends by throwing
\* the error of the last invocation; every call of withRetry ends.
C30_WithRetryIsBounded ==
  /\ [](Len(retry.log) <= retry.retries + 1)
  /\ []OnlyTheLastMaySucceed
  /\ [](retry.pc = "returned" =>
          /\ retry.log[Len(retry.log)].ok
          /\ retry.value = retry.log[Len(retry.log)].v)
  /\ [](retry.pc = "thrown" =>
          /\ Len(retry.log) = retry.retries + 1
          /\ \A i \in 1..Len(retry.log) : ~retry.log[i].ok
          /\ retry.error = retry.log[Len(retry.log)].v)
  /\ (retry.pc = "call" ~> retry.pc \in {"returned", "thrown"})

C30_Witness ==
  /\ retry.pc = "thrown"
  /\ retry.retries = SetupRetries
  /\ Len(retry.log) = SetupRetries + 1
  /\ retry.log[1].v # retry.error

\* C26: validatePlan never repairs: whether it returns or throws, the plan
\* afterwards is the plan before, except that fields among columns, filters,
\* metrics, group_by and order_by that were no arrays may have become empty
\* arrays; tables and every array that was there are left as they were.
C26_ValidatePlanOnlyFillsMissingArrays ==
  LastCall = "validatePlan" =>
    /\ plan.tables = prev.tables
    /\ plan.columns = prev.columns
    /\ plan.filters = prev.filters
    /\ plan.metrics = prev.metrics
    /\ plan.group_by = prev.group_by
    /\ plan.order_by = prev.order_by
    /\ plan.limit = prev.limit
    /\ plan.intent = prev.intent
    /\ plan.missing \subseteq prev.missing
    /\ ("tables" \in prev.missing) => ("tables" \in plan.missing)

FailureCategories ==
  {"COLUMN_NOT_FOUND", "SESSION_MISMATCH", "PLAN_INCONSISTENT", "UNHEALABLE"}

\* the column names a plan refers to
ColumnsNamedBy(p) ==
  Range(p.columns) \cup {p.filters[i].column : i \in 1..Len(p.filters)}
    \cup ({p.metrics[i].column : i \in 1..Len(p.metrics)} \ {"*", ""})
    \cup Range(p.group_by) \cup Range(p.order_by)

\* C27: analyzeSqlFailure gives every error one of the four categories, and
\* repairPlan returns a new plan and leaves its input as it was: for
\* COLUMN_NOT_FOUND a plan that names no column outside availableColumns,
\* for SESSION_MISMATCH a plan with tables = [logicalTableName], for
\* PLAN_INCONSISTENT a plan with empty filters and order_by, and null for
\* any other category.
C27_RepairByCategory ==
  heal.fn = "repairPlan" =>
    /\ heal.failureType \in FailureCategories
    /\ plan = prev
    /\ heal.failureType = "COLUMN_NOT_FOUND" =>
         /\ ~heal.isNull
         /\ ColumnsNamedBy(heal.repaired) \subseteq Range(heal.availableColumns)
    /\ heal.failureType = "SESSION_MISMATCH" =>
         /\ ~heal.isNull
         /\ heal.repaired.tables = <<heal.logicalTableName>>
    /\ heal.failureType = "PLAN_INCONSISTENT" =>
         /\ ~heal.isNull
         /\ heal.repaired.filters = <<>>
         /\ heal.repaired.order_by = <<>>
    /\ heal.failureType = "UNHEALABLE" => heal.isNull

\* the field f of p and of q is the same array, or is an array in neither
SameField(p, q, f) ==
  /\ p[f] = q[f]
  /\ (f \in p.missing) <=> (f \in q.missing)

\* C28: whenever extractMetrics produces a metric, the plan it returns has
\* columns = [], order_by = [] and limit = null, and its tables, filters and
\* group_by are those of the input plan; when no keyword matches, columns,
\* order_by and limit are left as they were.
C28_MetricClearsProjectionOrderingAndLimit ==
  (LastCall = "extractMetrics" /\ err = NoError) =>
    /\ SameField(plan, prev, "tables")
    /\ SameField(plan, prev, "filters")
    /\ SameField(plan, prev, "group_by")
    /\ IF Len(plan.metrics) > 0
       THEN /\ plan.columns = <<>> /\ IsArray(plan, "columns")
            /\ plan.order_by = <<>> /\ IsArray(plan, "order_by")
            /\ plan.limit = NullLimit
       ELSE /\ FirstRuleOf(question) = ""
            /\ SameField(plan, prev, "columns")
            /\ SameField(plan, prev, "order_by")
            /\ plan.limit = prev.limit

C28_Witness ==
  /\ hist = <<"extractMetrics">>
  /\ err = NoError
  /\ Len(plan.metrics) = 1
  /\ prev.columns = <<"amount">>
  /\ prev.limit # NullLimit
  /\ plan.limit = NullLimit

\* the place of the first piece that is the text kw, 0 when there is none
ClauseAt(s, kw) == FirstIn(s, {Txt(kw)})

\* the number of pieces that are the text kw
Occurrences(s, kw) == Cardinality({i \in 1..Len(s) : s[i] = Txt(kw)})

ClauseKeywords == <<" FROM ", " WHERE ", " GROUP BY ", " ORDER BY ", " LIMIT ">>

\* the keywords that occur stand in the order of ClauseKeywords, each once
InFixedOrder(s) ==
  /\ \A i \in 1..Len(ClauseKeywords) : Occurrences(s, ClauseKeywords[i]) <= 1
  /\ \A i, j \in 1..Len(ClauseKeywords) :
       ( /\ i < j
         /\ ClauseAt(s, ClauseKeywords[i]) > 0
         /\ ClauseAt(s, ClauseKeywords[j]) > 0 )
       => ClauseAt(s, ClauseKeywords[i]) < ClauseAt(s, ClauseKeywords[j])

\* proj is the columns cols, each in double quotes, joined by ", "
QuotedColumns(proj, cols) ==
  /\ Len(proj) = 4 * Len(cols) - 1
  /\ \A i \in 1..Len(cols) :
       /\ proj[4 * i - 3] = Txt("\"")
       /\ proj[4 * i - 2] = Piece("ident", cols[i])
       /\ proj[4 * i - 1] = Txt("\"")
  /\ \A i \in 1..(Len(cols) - 1) : proj[4 * i] = Txt(", ")

\* C29: buildSQL emits SELECT <projection> FROM <quoted table> followed by
\* WHERE, GROUP BY, ORDER BY and LIMIT in that fixed order, each clause present
\* exactly when its source (filters, group_by, order_by, limit) is non-empty
\* or a number; the projection is the aggregates when metrics is non-empty,
\* otherwise the quoted columns when columns is non-empty, otherwise *.
C29_ClausesInFixedOrderWhenTheirSourceIsSet ==
  (LastCall = "buildSQL" /\ err = NoError) =>
    /\ sql[1] = Txt("SELECT ")
    /\ FromAt(sql) > 2
    /\ FromAt(sql) + 3 <= Len(sql)
    /\ sql[FromAt(sql) + 1] = Txt("\"")
    /\ sql[FromAt(sql) + 2].k = "table"
    /\ sql[FromAt(sql) + 3] = Txt("\"")
    /\ InFixedOrder(sql)
    /\ (ClauseAt(sql, " WHERE ") > 0) <=> (Len(plan.filters) > 0)
    /\ (ClauseAt(sql, " GROUP BY ") > 0) <=> (Len(plan.group_by) > 0)
    /\ (ClauseAt(sql, " ORDER BY ") > 0) <=> (Len(plan.order_by) > 0)
    /\ (ClauseAt(sql, " LIMIT ") > 0) <=> plan.limit.isNumber
    /\ IF Len(plan.metrics) > 0
       THEN /\ AggregateAt(Projection(sql), 1, plan.metrics[1])
            /\ Aggregates(Projection(sql)) = Len(plan.metrics)
            /\ \A c \in Range(plan.columns) :
                 QuotedIdent(c) # SubSeq(Projection(sql), 1, 3)
       ELSE IF Len(plan.columns) > 0
       THEN QuotedColumns(Projection(sql), plan.columns)
       ELSE Projection(sql) = <<Txt("*")>>

C29_Witness ==
  /\ LastCall = "buildSQL"
  /\ err = NoError
  /\ Len(plan.metrics) > 0
  /\ Len(plan.columns) > 0
  /\ ClauseAt(sql, " WHERE ") > 0
  /\ ClauseAt(sql, " GROUP BY ") > ClauseAt(sql, " WHERE ")
  /\ ClauseAt(sql, " ORDER BY ") > ClauseAt(sql, " GROUP BY ")
  /\ ClauseAt(sql, " LIMIT ") > ClauseAt(sql, " ORDER BY ")

====
